---- MODULE Spec2Model ----
(***************************************************************************)
(* Model of the GraphRAG memory layer of open-canvas: the Graph Client     *)
(* (packages/shared/src/graphdb.ts and the later graphdb.js that carries   *)
(* getGraphDBConfig), the schema initializers, the read path and the write *)
(* path.  The repository holds two generations of the client, the read     *)
(* path and the write path; the later generation's definitions carry the   *)
(* suffix 2 where both define the same name.                               *)
(***************************************************************************)
EXTENDS Integers, Sequences, FiniteSets, TLC

\* ------------------------------------------------------------------------
\* Bounds of the model
\* ------------------------------------------------------------------------

\* Counters of store calls and of created drivers saturate here.
CountCap == 2

\* The store misbehaves on at most one session of an invocation: the
\* FaultAt-th session it opens, FaultAt in 0..MaxFaultAt (0: on none).
MaxFaultAt == 2

\* Length of the longest sequence of write queries of one write invocation.
MaxWriteCalls == 2

\* Number of invocations of the write path in one behaviour of SpecWrite.
MaxWrites == 3

\* Number of failures the store suffers in one behaviour of SpecWriteFaulty:
\* a session that fails, or an outage.
MaxFaults == 1

\* ------------------------------------------------------------------------
\* State: the process (environment, Graph Client, schema initializer), the
\* graph store, and the invocations of the write path
\* ------------------------------------------------------------------------

VARIABLES
  GRAPHRAG_MODE,         \* process.env.GRAPHRAG_MODE ("" when unset)
  storeUp,               \* whether the graph store is reachable
  _driver,               \* graphdb.ts: _driver is non-null
  _driverInitAttempted,  \* graphdb.ts: _driverInitAttempted
  _initialized,          \* graphrag-schema.ts: _initialized
  _driver2,              \* graphdb.js: _driver is non-null
  _config,               \* graphdb.js: mode held by _config, "none" when null
  _schemaInitialized,    \* graphdb.js: _schemaInitialized
  storeCalls,            \* calls that reached the store (saturating)
  driversCreated,        \* drivers constructed (saturating)
  last,                  \* the last completed invocation and its result
  GRAPHRAG_CONTRADICTION_STRATEGY,  \* process.env value ("" when unset)
  nodes,                 \* store: User, Session, Artifact, Extraction, Concept nodes
  rules,                 \* store: the StyleRule nodes, ruleId |-> properties
  edges,                 \* store: the relationships
  call,                  \* the activation records of the write invocations
  writes,                \* write invocations started so far
  faults,                \* failures the store is still going to suffer
  detected               \* the pairs detectSimpleContradiction has flagged

client == <<GRAPHRAG_MODE, storeUp, _driver, _driverInitAttempted, _initialized,
            _driver2, _config, _schemaInitialized, storeCalls, driversCreated>>

clientVars == <<client, last>>

writeVars == <<GRAPHRAG_CONTRADICTION_STRATEGY, nodes, rules, edges, call, writes, faults,
               detected>>

vars == <<clientVars, writeVars>>

\* The invocations of the write path that may be under way at a time.
Writers == {"w1", "w2"}
SequentialWriters == {"w1"}

EnvValues == {"", "OFF", "OPTIONAL", "REQUIRED"}

\* What the store does to a session: nothing, or a failure of driver.session(),
\* of session.run() (query failure or timeout), or of session.close().
Faults == {"open", "run", "close"}

Inc(n) == IF n < CountCap THEN n + 1 ELSE n

\* graphdb.ts getGraphRAGMode: upper-cased in the source; the values of
\* EnvValues are upper case already.
getGraphRAGMode(env) == IF env \in {"OPTIONAL", "REQUIRED"} THEN env ELSE "OFF"

\* graphdb.js getGraphRAGMode: the raw value, "OFF" when unset.
getGraphRAGMode2(env) == IF env = "" THEN "OFF" ELSE env

\* The client state an operation works on, with the store's behaviour during
\* the invocation (up, fk, ff) and the flag failed that records whether any
\* store interaction of the invocation failed; ran tells whether the
\* session.run of the call at hand was carried out by the store.
ClientState(fk, ff) ==
  [env |-> GRAPHRAG_MODE, up |-> storeUp,
   driver |-> _driver, attempted |-> _driverInitAttempted, initialized |-> _initialized,
   driver2 |-> _driver2, config |-> _config, schemaInitialized |-> _schemaInitialized,
   calls |-> storeCalls, drivers |-> driversCreated,
   failed |-> FALSE, ran |-> FALSE, fk |-> fk, ff |-> ff]

\* The fault of the session opened now, and the state after opening it.
FaultNow(st) == IF st.fk = 1 THEN st.ff ELSE "ok"
Tick(st) == [st EXCEPT !.fk = IF @ > 0 THEN @ - 1 ELSE 0]

Ret(ret, st) == [ret |-> ret, st |-> st]

\* await: the value x, once it is there, goes to the continuation K.
Await(x, K(_)) == CHOOSE y \in { K(v) : v \in {x} } : TRUE

\* ------------------------------------------------------------------------
\* graphdb.ts
\* ------------------------------------------------------------------------

getDriverNoOffGate(st) ==
  IF st.attempted THEN Ret(IF st.driver THEN "driver" ELSE "null", st)
  ELSE LET s1 == [st EXCEPT !.attempted = TRUE, !.drivers = Inc(@), !.calls = Inc(@)]
       IN IF st.up THEN Ret("driver", [s1 EXCEPT !.driver = TRUE])
          ELSE Ret(IF getGraphRAGMode(st.env) = "REQUIRED" THEN "raise" ELSE "null",
                   [s1 EXCEPT !.driver = FALSE, !.failed = TRUE])

getDriver(st) ==
  LET mode == getGraphRAGMode(st.env) IN
  IF mode = "OFF" THEN Ret("null", st)
  ELSE IF st.attempted THEN Ret(IF st.driver THEN "driver" ELSE "null", st)
  ELSE \* _driverInitAttempted = true; neo4j.driver(...); verifyConnectivity()
       LET s1 == [st EXCEPT !.attempted = TRUE, !.drivers = Inc(@), !.calls = Inc(@)]
       IN IF st.up THEN Ret("driver", [s1 EXCEPT !.driver = TRUE])
          ELSE Ret(IF mode = "REQUIRED" THEN "raise" ELSE "null",
                   [s1 EXCEPT !.driver = FALSE, !.failed = TRUE])

\* driver.session(), session.run() in try/catch, session.close() in finally:
\* the part runQuery and runWriteQuery share once they hold a driver.
sessionRun(st, mode) ==
  LET f  == FaultNow(st)
      s1 == Tick(st)
  IN IF f = "open" THEN Ret("raise", [s1 EXCEPT !.failed = TRUE, !.ran = FALSE])
     ELSE LET runOk == s1.up /\ f # "run"
              s2 == [s1 EXCEPT !.calls = Inc(@), !.ran = runOk,
                               !.failed = @ \/ ~runOk \/ f = "close"]
              body == IF runOk THEN "rows"
                      ELSE IF mode = "REQUIRED" THEN "raise" ELSE "null"
          IN Ret(IF f = "close" THEN "raise" ELSE body, s2)

runQuery(st) ==
  Await(getDriver(st), LAMBDA g :
    IF g.ret # "driver" THEN Ret(g.ret, [g.st EXCEPT !.ran = FALSE])
    ELSE sessionRun(g.st, getGraphRAGMode(st.env)))

runWriteQuery(st) ==
  Await(getDriver(st), LAMBDA g :
    IF g.ret # "driver" THEN Ret(g.ret, [g.st EXCEPT !.ran = FALSE])
    ELSE sessionRun(g.st, getGraphRAGMode(st.env)))

\* closeDriver were it to reset the module state whether or not a driver is
\* there
closeDriverResetting(st) == [st EXCEPT !.driver = FALSE, !.attempted = FALSE]

closeDriver(st) ==
  IF st.driver THEN [st EXCEPT !.driver = FALSE, !.attempted = FALSE] ELSE st

\* ------------------------------------------------------------------------
\* graphrag-schema.ts
\* ------------------------------------------------------------------------

\* Number of entries of SCHEMA_STATEMENTS.
SchemaStatements == 12

\* n awaited runWriteQuery calls in sequence; a raise ends the sequence.
RECURSIVE RunWrites(_, _)
RunWrites(st, n) ==
  IF n = 0 THEN [st |-> st, raised |-> FALSE]
  ELSE Await(runWriteQuery(st), LAMBDA r :
         IF r.ret = "raise" THEN [st |-> r.st, raised |-> TRUE]
         ELSE RunWrites(r.st, n - 1))

initGraphRAGSchema(st) ==
  LET mode == getGraphRAGMode(st.env) IN
  IF st.initialized THEN Ret("true", st)
  ELSE IF mode = "OFF" THEN Ret("true", [st EXCEPT !.initialized = TRUE])
  ELSE Await(getDriver(st), LAMBDA g :
         IF g.ret = "raise" THEN g
         ELSE IF g.ret = "null" THEN Ret("false", [g.st EXCEPT !.initialized = TRUE])
         ELSE Await(RunWrites(g.st, SchemaStatements), LAMBDA r :
                IF ~r.raised THEN Ret("true", [r.st EXCEPT !.initialized = TRUE])
                ELSE IF mode = "REQUIRED" THEN Ret("raise", r.st)
                ELSE Ret("false", [r.st EXCEPT !.initialized = TRUE])))

\* ------------------------------------------------------------------------
\* graphdb.js (the client with getGraphDBConfig) and its ensureGraphSchema
\* ------------------------------------------------------------------------

\* Number of constraint and index queries of ensureGraphSchema.
GraphSchemaQueries == 8

\* runQuery once it holds a driver: config = _config || getGraphDBConfig().
sessionRun2(st) ==
  sessionRun(st, IF st.config # "none" THEN st.config ELSE getGraphRAGMode2(st.env))

\* ensureGraphSchema, called from getDriver after _driver is assigned: each
\* runQuery finds _driver set and goes straight to its session.
RECURSIVE ensureGraphSchema(_, _)
ensureGraphSchema(st, n) ==
  IF n = 0 THEN [st |-> st, raised |-> FALSE]
  ELSE Await(sessionRun2(st), LAMBDA r :
         IF r.ret = "raise" THEN [st |-> r.st, raised |-> TRUE]
         ELSE ensureGraphSchema(r.st, n - 1))

getDriver2(st) ==
  LET mode == getGraphRAGMode2(st.env) IN
  IF mode = "OFF" THEN Ret("null", st)
  ELSE IF st.driver2 THEN Ret("driver", st)
  ELSE \* _driver = neo4j.driver(...); verifyConnectivity()
       LET s1 == [st EXCEPT !.driver2 = TRUE, !.drivers = Inc(@), !.calls = Inc(@)]
           onError(s) == Ret(IF mode = "REQUIRED" THEN "raise" ELSE "null", s)
       IN IF ~st.up THEN onError([s1 EXCEPT !.failed = TRUE])
          ELSE LET s2 == [s1 EXCEPT !.config = mode]
               IN IF s2.schemaInitialized THEN Ret("driver", s2)
                  ELSE Await(ensureGraphSchema(s2, GraphSchemaQueries), LAMBDA e :
                         IF e.raised THEN onError(e.st)
                         ELSE Ret("driver", [e.st EXCEPT !.schemaInitialized = TRUE]))

runQuery2(st) ==
  Await(getDriver2(st), LAMBDA g :
    IF g.ret # "driver" THEN Ret(g.ret, [g.st EXCEPT !.ran = FALSE])
    ELSE sessionRun2(g.st))

closeDriver2(st) ==
  IF st.driver2
  THEN [st EXCEPT !.driver2 = FALSE, !.config = "none", !.schemaInitialized = FALSE]
  ELSE st

\* n awaited runQuery calls in sequence; a raise ends the sequence.
RECURSIVE RunQueries2(_, _)
RunQueries2(st, n) ==
  IF n = 0 THEN [st |-> st, raised |-> FALSE]
  ELSE Await(runQuery2(st), LAMBDA r :
         IF r.ret = "raise" THEN [st |-> r.st, raised |-> TRUE]
         ELSE RunQueries2(r.st, n - 1))

\* ------------------------------------------------------------------------
\* Read path and write path, as far as the mode contract goes: what a query
\* that succeeds returns is the store's answer, taken as an input rw that
\* gives for each query whether it returns no row (0) or some (1).
\* ------------------------------------------------------------------------

Max2(a, b) == IF a >= b THEN a ELSE b

\* The answers of a store that holds concepts with neighbours or none, and
\* style rules of the user or none; a citation exists for whatever it holds.
RowAnswers ==
  { [entities |-> e, relations |-> e, styleRules |-> s, citations |-> Max2(e, s)] :
      e \in 0..1, s \in 0..1 }

\* What an invocation hands to its caller: null, a raise, a boolean, nothing,
\* or a context with the emptiness of its four lists.
Res(kind) == [kind |-> kind, entities |-> 0, relations |-> 0, styleRules |-> 0, citations |-> 0]
Ctx(e, r, s, c) == [kind |-> "ctx", entities |-> e, relations |-> r, styleRules |-> s, citations |-> c]

Rows(r, n) == IF r.ret = "rows" THEN n ELSE 0

\* graphrag-read (first generation).  The four queries are started together
\* by Promise.all: when the driver has not been asked for yet, the first
\* query's getDriver sets _driverInitAttempted and suspends on the import,
\* and the queries started after it find _driver still null.
queryRelevantContext(st, hasEntities, rw) ==
  LET mode == getGraphRAGMode(st.env)
      none(s) == Ret("none", s)
      late(s) == IF ~st.attempted THEN Ret("null", s) ELSE runQuery(s)
  IN IF mode = "OFF" THEN [res |-> Res("null"), st |-> st]
     ELSE
      Await(IF hasEntities THEN runQuery(st) ELSE none(st), LAMBDA r1 :
      Await(IF hasEntities THEN late(r1.st) ELSE none(r1.st), LAMBDA r2 :
      Await(IF hasEntities THEN late(r2.st) ELSE runQuery(r2.st), LAMBDA r3 :
      Await(IF hasEntities THEN late(r3.st) ELSE none(r3.st), LAMBDA r4 :
        IF "raise" \in {r1.ret, r2.ret, r3.ret, r4.ret}
        THEN [res |-> Res(IF mode = "REQUIRED" THEN "raise" ELSE "null"), st |-> r4.st]
        ELSE [res |-> Ctx(Rows(r1, rw.entities), Rows(r2, rw.relations),
                          Rows(r3, rw.styleRules), Rows(r4, rw.citations)),
              st |-> r4.st]))))

\* graphrag-read (second generation): the queries are awaited one by one;
\* without an entity name only retrieveActiveStyleRules runs, with one
\* resolveConceptNodes, traverseNeighborhood, retrieveActiveStyleRules and
\* gatherCitations, which issues no query for empty id lists.
buildGraphContext(st, hasNames, rw) ==
  LET mode == getGraphRAGMode2(st.env)
      onError(s) == [res |-> Res(IF mode = "REQUIRED" THEN "raise" ELSE "null"), st |-> s]
  IN IF mode = "OFF" THEN [res |-> Res("null"), st |-> st]
     ELSE IF ~hasNames
       THEN Await(runQuery2(st), LAMBDA r0 :
              IF r0.ret = "raise" THEN onError(r0.st)
              ELSE IF Rows(r0, rw.styleRules) = 0 THEN [res |-> Res("null"), st |-> r0.st]
              ELSE [res |-> Ctx(0, 0, Rows(r0, rw.styleRules), 0), st |-> r0.st])
       ELSE Await(runQuery2(st), LAMBDA r1 :
              IF r1.ret = "raise" THEN onError(r1.st) ELSE
            Await(runQuery2(r1.st), LAMBDA r2 :
              IF r2.ret = "raise" THEN onError(r2.st) ELSE
            Await(runQuery2(r2.st), LAMBDA r3 :
              IF r3.ret = "raise" THEN onError(r3.st) ELSE
            LET e  == Rows(r1, rw.entities)
                n  == Rows(r2, rw.relations)
                sr == Rows(r3, rw.styleRules)
            IN
            Await(IF e + n + sr = 0 THEN Ret("none", r3.st) ELSE runQuery2(r3.st), LAMBDA r4 :
              IF r4.ret = "raise" THEN onError(r4.st)
              ELSE [res |-> Ctx(Max2(e, n), n, sr, Rows(r4, rw.citations)), st |-> r4.st]))))

\* apps/agents/src/lib/graphrag-context.ts
getGraphContextForGeneration(st, hasNames, rw) ==
  LET mode == getGraphRAGMode(st.env)
  IN IF mode = "OFF" THEN [res |-> Res("null"), st |-> st]
     ELSE Await(buildGraphContext(st, hasNames, rw), LAMBDA b :
            IF b.res.kind = "raise"
            THEN [res |-> Res(IF mode = "REQUIRED" THEN "raise" ELSE "null"), st |-> b.st]
            ELSE b)

\* graphrag-write (first generation): createExtractionNode, upsertConcept,
\* upsertRelation and upsertStyleRule issue n awaited runWriteQuery calls.
writeToGraph(st, n) ==
  LET mode == getGraphRAGMode(st.env)
  IN IF mode = "OFF" THEN [res |-> Res("false"), st |-> st]
     ELSE Await(RunWrites(st, n), LAMBDA r :
            IF r.raised
            THEN [res |-> Res(IF mode = "REQUIRED" THEN "raise" ELSE "false"), st |-> r.st]
            ELSE [res |-> Res("true"), st |-> r.st])

\* graphrag-write (second generation): ensureSessionArtifactNodes and
\* writeExtractionToGraph issue n awaited runQuery calls.
extractAndWriteToGraph(st, n) ==
  LET mode == getGraphRAGMode2(st.env)
  IN IF mode = "OFF" THEN [res |-> Res("void"), st |-> st]
     ELSE Await(RunQueries2(st, n), LAMBDA r :
            IF r.raised /\ mode = "REQUIRED" THEN [res |-> Res("raise"), st |-> r.st]
            ELSE [res |-> Res("void"), st |-> r.st])

\* ------------------------------------------------------------------------
\* Text: JavaScript strings and the regular expressions of graphrag-write.ts
\* ------------------------------------------------------------------------

Char(s, i) == SubSeq(s, i, i)

UpperCaseLetters == "ABCDEFGHIJKLMNOPQRSTUVWXYZ"
LowerCaseLetters == "abcdefghijklmnopqrstuvwxyz"
DigitsAndUnderscore == "0123456789_"

IndexOf(c, alphabet) ==
  IF \E i \in 1..Len(alphabet) : Char(alphabet, i) = c
  THEN CHOOSE i \in 1..Len(alphabet) : Char(alphabet, i) = c
  ELSE 0

\* [A-Z], [a-z], \w and \s (the texts of the model hold no other white space)
IsUpper(c) == IndexOf(c, UpperCaseLetters) > 0
IsLower(c) == IndexOf(c, LowerCaseLetters) > 0
IsWordChar(c) == IsUpper(c) \/ IsLower(c) \/ IndexOf(c, DigitsAndUnderscore) > 0
IsSpace(c) == c = " "

LowerChar(c) ==
  Await(IndexOf(c, UpperCaseLetters), LAMBDA k :
    IF k > 0 THEN Char(LowerCaseLetters, k) ELSE c)

RECURSIVE LowerFrom(_, _)
LowerFrom(s, i) ==
  IF i > Len(s) THEN "" ELSE LowerChar(Char(s, i)) \o LowerFrom(s, i + 1)

toLowerCase(s) == Await(s, LAMBDA v : LowerFrom(v, 1))

trim(s) ==
  Await(s, LAMBDA v :
    IF \A i \in 1..Len(v) : IsSpace(Char(v, i)) THEN ""
    ELSE SubSeq(v,
                CHOOSE a \in 1..Len(v) :
                  ~IsSpace(Char(v, a)) /\ \A k \in 1..(a - 1) : IsSpace(Char(v, k)),
                CHOOSE b \in 1..Len(v) :
                  ~IsSpace(Char(v, b)) /\ \A k \in (b + 1)..Len(v) : IsSpace(Char(v, k))))

\* String.prototype.includes
includes(s, part) ==
  \E i \in 1..(Len(s) - Len(part) + 1) : SubSeq(s, i, i + Len(part) - 1) = part

\* The literal lit stands in s at index i.
At(s, i, lit) ==
  /\ i >= 1
  /\ i + Len(lit) - 1 <= Len(s)
  /\ SubSeq(s, i, i + Len(lit) - 1) = lit

\* \b around a literal that begins and ends with a word character
WordBounded(s, i, lit) ==
  /\ At(s, i, lit)
  /\ i = 1 \/ ~IsWordChar(Char(s, i - 1))
  /\ i + Len(lit) > Len(s) \/ ~IsWordChar(Char(s, i + Len(lit)))

\* \s+ from index i, greedy: the index of the first character after it.
SpacesEnd(s, i) ==
  CHOOSE j \in i..(Len(s) + 1) :
    /\ \A k \in i..(j - 1) : IsSpace(Char(s, k))
    /\ j = Len(s) + 1 \/ ~IsSpace(Char(s, j))

\* The smallest member of a non-empty set of indexes.
Least(S) == CHOOSE i \in S : \A j \in S : i <= j

\* String.prototype.split(/\s+/), as the set of the non-empty pieces
Words(s) ==
  { SubSeq(s, a, b) : <<a, b>> \in
      { p \in (1..Len(s)) \X (1..Len(s)) :
          /\ p[1] <= p[2]
          /\ \A k \in p[1]..p[2] : ~IsSpace(Char(s, k))
          /\ p[1] = 1 \/ IsSpace(Char(s, p[1] - 1))
          /\ p[2] = Len(s) \/ IsSpace(Char(s, p[2] + 1)) } }

COMMON_WORDS ==
  { "the", "this", "that", "with", "from", "have", "been", "will", "would", "could",
    "should", "about", "what", "when", "where", "which", "there", "their", "here",
    "just", "also", "then", "than", "more", "some", "other", "into", "only", "very",
    "well", "much", "each", "every", "both", "after", "before", "between", "through",
    "during", "without", "within", "along", "among", "however", "although", "because",
    "since", "while", "please", "thanks", "thank", "hello", "sure", "okay", "yes", "not" }

\* ------------------------------------------------------------------------
\* graphrag-write.ts: extractFromMessages
\* ------------------------------------------------------------------------

\* The four preference patterns, each a set of alternatives; an alternative is
\* the sequence of its literals, \s+ between them and \s+ after the last one.
\* The flag i of the patterns is rendered by matching the lower-cased content.
preferencePatterns ==
  << { <<"i", "prefer">>, <<"i", "like">>, <<"i", "want">>, <<"i", "need">> },
     { <<"always">>, <<"never">> },
     { <<"use">>, <<"avoid">>, <<"don't use">>, <<"do not use">> },
     { <<"make it">>, <<"keep it">>, <<"write in">> } >>

\* Index after the literals k.. of alt and the white space that follows each,
\* matched from index i; 0 when they do not match there.
RECURSIVE AfterLiterals(_, _, _, _)
AfterLiterals(s, i, alt, k) ==
  IF k > Len(alt) THEN i
  ELSE IF At(s, i, alt[k]) /\ At(s, i + Len(alt[k]), " ")
       THEN Await(SpacesEnd(s, i + Len(alt[k])), LAMBDA j : AfterLiterals(s, j, alt, k + 1))
       ELSE 0

\* Index where the group (.+?) of a match that starts at i begins; 0 when the
\* pattern does not match at i.  (A literal followed only by white space up
\* to the end of the content matches too, by giving back a space; what it
\* matches is shorter than 11 characters and is dropped by the length test.)
GroupStart(s, i, alts) ==
  IF \E alt \in alts : AfterLiterals(s, i, alt, 1) \in 1..Len(s)
  THEN AfterLiterals(s, i, CHOOSE alt \in alts : AfterLiterals(s, i, alt, 1) \in 1..Len(s), 1)
  ELSE 0

\* (.+?)(?:\.|$): the match ends with the first "." after the first character
\* of the group, or with the content.
MatchEnd(s, g) ==
  IF \E e \in (g + 1)..Len(s) : Char(s, e) = "."
  THEN Least({ e \in (g + 1)..Len(s) : Char(s, e) = "." })
  ELSE Len(s)

\* The while loop over pattern.exec: the matches, from index from on, as
\* records of the first and the last index of match[0].
RECURSIVE execAll(_, _, _)
execAll(s, alts, from) ==
  Await({ i \in from..Len(s) : GroupStart(s, i, alts) > 0 }, LAMBDA starts :
    IF starts = {} THEN <<>>
    ELSE Await(Least(starts), LAMBDA i :
         Await(MatchEnd(s, GroupStart(s, i, alts)), LAMBDA e :
           <<[first |-> i, last |-> e]>> \o execAll(s, alts, e + 1))))

NegationCues == {"don't", "never", "avoid", "stop", "no longer", "not anymore"}
RetrospectiveCues == {"used to", "previously", "before"}

HasCue(s, cues) == \E cue \in cues : \E i \in 1..Len(s) : WordBounded(s, i, cue)

\* temporalMarkerOf were it to leave the marker unset without a cue
temporalMarkerOfCue(ruleText) ==
  Await(toLowerCase(ruleText), LAMBDA lower :
    IF HasCue(lower, NegationCues) THEN "negated"
    ELSE IF HasCue(lower, RetrospectiveCues) THEN "past"
    ELSE "")

\* temporalMarkerOf were it to test the retrospective cues first
temporalMarkerOfRetrospectiveFirst(ruleText) ==
  Await(toLowerCase(ruleText), LAMBDA lower :
    IF HasCue(lower, RetrospectiveCues) THEN "past"
    ELSE IF HasCue(lower, NegationCues) THEN "negated"
    ELSE "current")

temporalMarkerOf(ruleText) ==
  Await(toLowerCase(ruleText), LAMBDA lower :
    IF HasCue(lower, NegationCues) THEN "negated"
    ELSE IF HasCue(lower, RetrospectiveCues) THEN "past"
    ELSE "current")

\* The style rules one pattern yields from one message.  The extractor leaves
\* strict unset, which the insertion reads as false.
RECURSIVE RulesOfMatches(_, _)
RulesOfMatches(content, ms) ==
  IF ms = <<>> THEN <<>>
  ELSE Await(trim(SubSeq(content, ms[1].first, ms[1].last)), LAMBDA ruleText :
         (IF Len(ruleText) > 10 /\ Len(ruleText) < 200
          THEN <<[rule |-> ruleText, scope |-> "global",
                  temporalMarker |-> temporalMarkerOf(ruleText), strict |-> FALSE]>>
          ELSE <<>>)
         \o RulesOfMatches(content, Tail(ms)))

RulesOfContent(content) ==
  Await(toLowerCase(content), LAMBDA lower :
    RulesOfMatches(content, execAll(lower, preferencePatterns[1], 1))
    \o RulesOfMatches(content, execAll(lower, preferencePatterns[2], 1))
    \o RulesOfMatches(content, execAll(lower, preferencePatterns[3], 1))
    \o RulesOfMatches(content, execAll(lower, preferencePatterns[4], 1)))

\* [A-Z][a-z]+ at index i: the index of its last character, 0 when absent.
CapitalizedEnd(s, i) ==
  IF i + 1 <= Len(s) /\ IsUpper(Char(s, i)) /\ IsLower(Char(s, i + 1))
  THEN CHOOSE j \in (i + 1)..Len(s) :
         /\ \A k \in (i + 1)..j : IsLower(Char(s, k))
         /\ j = Len(s) \/ ~IsLower(Char(s, j + 1))
  ELSE 0

\* (?:\s+[A-Z][a-z]+)*\b after a word that ends at index j: the index of the
\* last character of the match.
RECURSIVE ProperNounEnd(_, _)
ProperNounEnd(s, j) ==
  IF j + 1 <= Len(s) /\ IsSpace(Char(s, j + 1))
  THEN Await(CapitalizedEnd(s, SpacesEnd(s, j + 1)), LAMBDA e :
         IF e > 0 /\ (e = Len(s) \/ ~IsWordChar(Char(s, e + 1)))
         THEN ProperNounEnd(s, e) ELSE j)
  ELSE j

\* /\b([A-Z][a-z]+(?:\s+[A-Z][a-z]+)*)\b/g
ProperNounAt(s, i) ==
  /\ i = 1 \/ ~IsWordChar(Char(s, i - 1))
  /\ CapitalizedEnd(s, i) > 0
  /\ CapitalizedEnd(s, i) = Len(s) \/ ~IsWordChar(Char(s, CapitalizedEnd(s, i) + 1))

RECURSIVE properNouns(_, _)
properNouns(s, from) ==
  Await({ i \in from..Len(s) : ProperNounAt(s, i) }, LAMBDA starts :
    IF starts = {} THEN <<>>
    ELSE Await(Least(starts), LAMBDA i :
         Await(ProperNounEnd(s, CapitalizedEnd(s, i)), LAMBDA e :
           <<SubSeq(s, i, e)>> \o properNouns(s, e + 1))))

\* The quotation mark, and the backquote, which the texts of the model write ^.
QuotationMark == "\""
Backquote == "^"

\* /"([^"]+)"/g and the same pattern for the backquote: the terms between two marks q
RECURSIVE quotedTerms(_, _, _)
quotedTerms(s, q, from) ==
  Await({ i \in from..Len(s) :
            /\ Char(s, i) = q
            /\ i + 1 <= Len(s) /\ Char(s, i + 1) # q
            /\ \E j \in (i + 2)..Len(s) : Char(s, j) = q }, LAMBDA starts :
    IF starts = {} THEN <<>>
    ELSE Await(Least(starts), LAMBDA i :
         Await(Least({ j \in (i + 2)..Len(s) : Char(s, j) = q }), LAMBDA j :
           <<SubSeq(s, i + 1, j - 1)>> \o quotedTerms(s, q, j + 1))))

\* The entity names of the candidates, filtered and lower-cased
RECURSIVE EntityNames(_)
EntityNames(candidates) ==
  IF candidates = <<>> THEN <<>>
  ELSE Await(trim(candidates[1]), LAMBDA name :
         (IF Len(name) > 2 /\ Len(name) < 100 /\ toLowerCase(name) \notin COMMON_WORDS
          THEN <<toLowerCase(name)>> ELSE <<>>)
         \o EntityNames(Tail(candidates)))

EntitiesOfContent(content) ==
  EntityNames(properNouns(content, 1) \o quotedTerms(content, QuotationMark, 1)
              \o quotedTerms(content, Backquote, 1))

\* The Map uniqueEntities: one entry per name, in the order of first insertion
RECURSIVE Deduplicate(_)
Deduplicate(names) ==
  IF names = <<>> THEN <<>>
  ELSE Await(Deduplicate(SubSeq(names, 1, Len(names) - 1)), LAMBDA front :
         IF \E k \in 1..Len(front) : front[k] = names[Len(names)]
         THEN front ELSE Append(front, names[Len(names)]))

RECURSIVE ExtractFrom(_, _)
ExtractFrom(messages, k) ==
  IF k > Len(messages) THEN [entities |-> <<>>, styleRules |-> <<>>]
  ELSE Await(ExtractFrom(messages, k + 1), LAMBDA rest :
         IF messages[k].role \notin {"human", "user"} THEN rest
         ELSE [entities   |-> EntitiesOfContent(messages[k].content) \o rest.entities,
               styleRules |-> RulesOfContent(messages[k].content) \o rest.styleRules])

extractFromMessages(messages) ==
  Await(ExtractFrom(messages, 1), LAMBDA found :
    [entities |-> Deduplicate(found.entities), relations |-> <<>>,
     styleRules |-> found.styleRules])

\* ------------------------------------------------------------------------
\* graphrag-write.ts: detectSimpleContradiction
\* ------------------------------------------------------------------------

opposingPairs ==
  << <<"formal", "casual">>, <<"formal", "informal">>, <<"verbose", "concise">>,
     <<"detailed", "brief">>, <<"simple", "complex">>, <<"short", "long">>,
     <<"technical", "simple">>, <<"professional", "casual">>,
     <<"serious", "humorous">>, <<"passive", "active">> >>

SignificantWords(lower) == { w \in Words(lower) : Len(w) > 3 /\ w \notin COMMON_WORDS }

\* detectSimpleContradiction were its loop to test each pair in the order of
\* the table only: lower1.includes(a) && lower2.includes(b)
detectSimpleContradictionOneWay(newRule, existingRule, newTemporalMarker) ==
  Await(toLowerCase(newRule), LAMBDA lower1 :
  Await(toLowerCase(existingRule), LAMBDA lower2 :
    \/ /\ newTemporalMarker = "negated"
       /\ SignificantWords(lower1) \cap SignificantWords(lower2) # {}
    \/ \E k \in 1..Len(opposingPairs) :
         includes(lower1, opposingPairs[k][1]) /\ includes(lower2, opposingPairs[k][2])))

detectSimpleContradiction(newRule, existingRule, newTemporalMarker) ==
  Await(toLowerCase(newRule), LAMBDA lower1 :
  Await(toLowerCase(existingRule), LAMBDA lower2 :
    \/ /\ newTemporalMarker = "negated"
       /\ SignificantWords(lower1) \cap SignificantWords(lower2) # {}
    \/ \E k \in 1..Len(opposingPairs) :
         \/ includes(lower1, opposingPairs[k][1]) /\ includes(lower2, opposingPairs[k][2])
         \/ includes(lower1, opposingPairs[k][2]) /\ includes(lower2, opposingPairs[k][1])))

\* ------------------------------------------------------------------------
\* The graph store, and the Cypher statements of the write path as functions
\* from graph to graph.  A statement runs in its own transaction: it is
\* applied as a whole or not at all.  MERGE creates what it does not find; a
\* MATCH that finds nothing ends the statement, and what was merged before it
\* stays.
\* ------------------------------------------------------------------------

Node(label, id) == <<label, id>>
Edge(type, from, to, props) == [type |-> type, from |-> from, to |-> to, props |-> props]

Graph == [nodes |-> nodes, rules |-> rules, edges |-> edges]

Has(G, label, id) == Node(label, id) \in G.nodes
HasRule(G, ruleId) == ruleId \in DOMAIN G.rules
AddNode(G, label, id) == [G EXCEPT !.nodes = @ \cup {Node(label, id)}]
AddEdge(G, e) == [G EXCEPT !.edges = @ \cup {e}]
\* SET on a rule were it to supersede, in the same statement, the other
\* active rules of the scope when it sets active = true
SetRuleSuperseding(G, ruleId, props) ==
  [G EXCEPT !.rules = [r \in DOMAIN @ \cup {ruleId} |->
     IF r = ruleId THEN props
     ELSE IF props.active /\ @[r].active /\ @[r].scope = props.scope
          THEN [@[r] EXCEPT !.active = FALSE, !.temporalMarker = "past"]
          ELSE @[r]]]

SetRule(G, ruleId, props) ==
  [G EXCEPT !.rules = [r \in DOMAIN @ \cup {ruleId} |-> IF r = ruleId THEN props ELSE @[r]]]

\* ensureSessionArtifactNodes: MERGE (u:User {userId})
MergeUser(G, userId) == AddNode(G, "User", userId)

\* ensureSessionArtifactNodes: MERGE (s:Session) ... MATCH (u:User) MERGE (u)-[:STARTED]->(s)
MergeSession(G, sessionId, userId) ==
  Await(AddNode(G, "Session", sessionId), LAMBDA G1 :
    IF ~Has(G1, "User", userId) THEN G1
    ELSE AddEdge(G1, Edge("STARTED", Node("User", userId), Node("Session", sessionId), <<>>)))

\* ensureSessionArtifactNodes: MERGE (a:Artifact) ... MATCH (s:Session)
\* MERGE (s)-[:CONTAINS]->(a) ... MATCH (u:User) MERGE (u)-[:CREATED]->(a)
MergeArtifact(G, artifactId, sessionId, userId) ==
  Await(AddNode(G, "Artifact", artifactId), LAMBDA G1 :
    IF ~Has(G1, "Session", sessionId) THEN G1
    ELSE Await(AddEdge(G1, Edge("CONTAINS", Node("Session", sessionId),
                                Node("Artifact", artifactId), <<>>)), LAMBDA G2 :
           IF ~Has(G2, "User", userId) THEN G2
           ELSE AddEdge(G2, Edge("CREATED", Node("User", userId),
                                 Node("Artifact", artifactId), <<>>))))

\* writeExtractionToGraph: MERGE (e:Extraction {extractionId})
CreateExtraction(G, extractionId) == AddNode(G, "Extraction", extractionId)

\* writeExtractionToGraph: MATCH (e:Extraction) MATCH (s:Session) MERGE (e)-[:EXTRACTED_FROM]->(s)
LinkSession(G, extractionId, sessionId) ==
  IF Has(G, "Extraction", extractionId) /\ Has(G, "Session", sessionId)
  THEN AddEdge(G, Edge("EXTRACTED_FROM", Node("Extraction", extractionId),
                       Node("Session", sessionId), <<>>))
  ELSE G

\* writeExtractionToGraph: MATCH (e:Extraction) MERGE (a:Artifact)
\* MERGE (e)-[:EXTRACTED_FROM_ARTIFACT]->(a)
LinkArtifact(G, extractionId, artifactId) ==
  IF ~Has(G, "Extraction", extractionId) THEN G
  ELSE AddEdge(AddNode(G, "Artifact", artifactId),
               Edge("EXTRACTED_FROM_ARTIFACT", Node("Extraction", extractionId),
                    Node("Artifact", artifactId), <<>>))

\* writeExtractionToGraph: MERGE (c:Concept {name}) ... MATCH (e:Extraction)
\* MERGE (e)-[:CREATED]->(c)
UpsertConcept(G, name, extractionId) ==
  Await(AddNode(G, "Concept", name), LAMBDA G1 :
    IF ~Has(G1, "Extraction", extractionId) THEN G1
    ELSE AddEdge(G1, Edge("CREATED", Node("Extraction", extractionId),
                          Node("Concept", name), <<>>)))

\* writeExtractionToGraph: MATCH (a:Artifact) MATCH (c:Concept) MERGE (a)-[:MENTIONS]->(c)
LinkMention(G, artifactId, name) ==
  IF Has(G, "Artifact", artifactId) /\ Has(G, "Concept", name)
  THEN AddEdge(G, Edge("MENTIONS", Node("Artifact", artifactId), Node("Concept", name), <<>>))
  ELSE G

\* writeExtractionToGraph: MERGE (s:Concept) MERGE (t:Concept) MERGE (s)-[r:RELATED_TO]->(t)
\* SET r.type, r.extractionId
UpsertRelation(G, rel, extractionId) ==
  Await(AddNode(AddNode(G, "Concept", rel.source), "Concept", rel.target), LAMBDA G1 :
    [G1 EXCEPT !.edges =
       { e \in @ : ~(/\ e.type = "RELATED_TO"
                     /\ e.from = Node("Concept", rel.source)
                     /\ e.to = Node("Concept", rel.target)) }
       \cup { Edge("RELATED_TO", Node("Concept", rel.source), Node("Concept", rel.target),
                   <<rel.type, extractionId>>) }])

\* The query of ActiveRuleRecords were it to leave out the scope of the rule:
\* MATCH (u:User {userId})-[:PREFERS]->(sr:StyleRule {active: true})
ActiveRuleRecordsOfAnyScope(G, userId, scope) ==
  { [edge |-> e.props, ruleId |-> e.to[2], rule |-> G.rules[e.to[2]].rule,
     strict |-> G.rules[e.to[2]].strict,
     temporalMarker |-> G.rules[e.to[2]].temporalMarker] :
      e \in { f \in G.edges :
                /\ f.type = "PREFERS"
                /\ f.from = Node("User", userId)
                /\ Has(G, "User", userId)
                /\ HasRule(G, f.to[2])
                /\ G.rules[f.to[2]].active } }

\* detectAndRecordContradictions: MATCH (u:User {userId})-[:PREFERS]->
\* (sr:StyleRule {scope, active: true}) RETURN sr.ruleId, sr.rule, sr.strict,
\* sr.temporalMarker: one record for each PREFERS edge found.
ActiveRuleRecords(G, userId, scope) ==
  { [edge |-> e.props, ruleId |-> e.to[2], rule |-> G.rules[e.to[2]].rule,
     strict |-> G.rules[e.to[2]].strict,
     temporalMarker |-> G.rules[e.to[2]].temporalMarker] :
      e \in { f \in G.edges :
                /\ f.type = "PREFERS"
                /\ f.from = Node("User", userId)
                /\ Has(G, "User", userId)
                /\ HasRule(G, f.to[2])
                /\ G.rules[f.to[2]].scope = scope
                /\ G.rules[f.to[2]].active } }

\* The store returns the records of a statement without ORDER BY in an order
\* of its own choosing.
RECURSIVE Orders(_)
Orders(S) ==
  IF S = {} THEN {<<>>}
  ELSE UNION { { <<x>> \o t : t \in Orders(S \ {x}) } : x \in S }

\* detectAndRecordContradictions: MATCH (new:StyleRule) MATCH (old:StyleRule)
\* MERGE (new)-[:CONTRADICTS {reason, createdAt, extractionId, strategy}]->(old)
RecordContradiction(G, newRuleId, oldRuleId, extractionId, strategy) ==
  IF HasRule(G, newRuleId) /\ HasRule(G, oldRuleId)
  THEN AddEdge(G, Edge("CONTRADICTS", Node("StyleRule", newRuleId),
                       Node("StyleRule", oldRuleId), <<extractionId, strategy>>))
  ELSE G

\* detectAndRecordContradictions: MATCH (sr:StyleRule {ruleId: $newRuleId})
\* SET sr.active = false, sr.pendingConfirmation = true
MarkPending(G, newRuleId) ==
  IF HasRule(G, newRuleId)
  THEN SetRule(G, newRuleId,
               [G.rules[newRuleId] EXCEPT !.active = FALSE, !.pendingConfirmation = TRUE])
  ELSE G

\* The statement of DeactivateOld were it DETACH DELETE sr: the rule and its
\* relationships leave the graph.
DeleteOld(G, oldRuleId) ==
  [G EXCEPT !.rules = [r \in DOMAIN @ \ {oldRuleId} |-> @[r]],
            !.edges = { e \in @ : Node("StyleRule", oldRuleId) \notin {e.from, e.to} }]

\* detectAndRecordContradictions: MATCH (sr:StyleRule {ruleId: $oldRuleId})
\* SET sr.active = false, sr.temporalMarker = 'past'
DeactivateOld(G, oldRuleId) ==
  IF HasRule(G, oldRuleId)
  THEN SetRule(G, oldRuleId,
               [G.rules[oldRuleId] EXCEPT !.active = FALSE, !.temporalMarker = "past"])
  ELSE G

\* The rules of G that userId PREFERS, active and in scope
ActiveRulesOf(G, userId, scope) ==
  { r \in DOMAIN G.rules :
      /\ G.rules[r].active
      /\ G.rules[r].scope = scope
      /\ \E e \in G.edges :
           e.type = "PREFERS" /\ e.from = Node("User", userId) /\ e.to = Node("StyleRule", r) }

\* writeExtractionToGraph: MERGE (sr:StyleRule {ruleId}) SET sr.rule, sr.scope,
\* sr.temporalMarker, sr.since, sr.active = true, sr.confidence, sr.strict ...
\* MATCH (u:User) MERGE (u)-[:PREFERS {since, scope, temporalMarker}]->(sr) ...
\* MATCH (e:Extraction) MERGE (e)-[:CREATED]->(sr)
\* (sr.since = datetime() is later than the since of every rule in the store)
InsertRule(G, ruleId, rule, userId, extractionId) ==
  Await(SetRule(G, ruleId,
                [rule |-> rule.rule, scope |-> rule.scope,
                 temporalMarker |-> rule.temporalMarker, active |-> TRUE,
                 strict |-> rule.strict,
                 since |-> 1 + Cardinality({ r \in DOMAIN G.rules :
                                              G.rules[r].since >= 1 }),
                 pendingConfirmation |->
                   IF HasRule(G, ruleId) THEN G.rules[ruleId].pendingConfirmation ELSE FALSE]),
        LAMBDA G1 :
    IF ~Has(G1, "User", userId) THEN G1
    ELSE Await(AddEdge(G1, Edge("PREFERS", Node("User", userId), Node("StyleRule", ruleId),
                                <<rule.scope, rule.temporalMarker>>)), LAMBDA G2 :
           IF ~Has(G2, "Extraction", extractionId) THEN G2
           ELSE AddEdge(G2, Edge("CREATED", Node("Extraction", extractionId),
                                 Node("StyleRule", ruleId), <<>>))))

\* graphdb.js getGraphDBConfig: contradictionStrategy
contradictionStrategy(env) == IF env = "" THEN "most-recent-wins" ELSE env

ContradictionStrategies ==
  {"most-recent-wins", "user-confirmation", "negated-overrides", "strict-requires-confirmation"}

resolutionStepDeactivating(existingStrict, strategy) ==
  IF existingStrict /\ strategy # "user-confirmation" THEN "markPending"
  ELSE "deactivateOld"

\* detectAndRecordContradictions: the branch taken after the CONTRADICTS
\* statement
resolutionStep(existingStrict, strategy) ==
  IF existingStrict /\ strategy # "user-confirmation" THEN "markPending"
  ELSE IF strategy = "most-recent-wins" THEN "deactivateOld"
  ELSE "none"

\* ------------------------------------------------------------------------
\* Inputs of the write path
\* ------------------------------------------------------------------------

\* The invocations of extractAndWriteToGraph: params (artifactId "" when the
\* caller gives none)
WriteToGraphParams ==
  { [userId |-> "u1", sessionId |-> "s1", artifactId |-> "",
     messages |-> << [role |-> "user", content |-> "use formal tone"] >>],
    [userId |-> "u1", sessionId |-> "s1", artifactId |-> "a1",
     messages |-> << [role |-> "assistant", content |-> "Sure, Mars it is"],
                     [role |-> "user", content |-> "use casual tone about Atlas"] >>],
    [userId |-> "u1", sessionId |-> "s1", artifactId |-> "",
     messages |-> << [role |-> "human", content |-> "never use formal tone"] >>] }

\* Each of them with what extractFromMessages makes of its messages
ExtractAndWriteInvocations ==
  { [params |-> p, extraction |-> extractFromMessages(p.messages)] :
      p \in WriteToGraphParams }

\* The invocations of writeExtractionToGraph by callers that produce the
\* extraction result themselves
WriteExtractionInvocations ==
  { [params |-> [userId |-> "u1", sessionId |-> "s1", artifactId |-> "a1", messages |-> <<>>],
     extraction |->
       [entities   |-> <<"atlas">>,
        relations  |-> << [source |-> "atlas", target |-> "mars", type |-> "orbits"] >>,
        styleRules |-> << [rule |-> "use formal tone", scope |-> "global",
                           temporalMarker |-> "current", strict |-> TRUE] >>]] }

\* The conversations and the extractions written in the sessions that read
ReadSessionParams ==
  { [userId |-> "u1", sessionId |-> "s1", artifactId |-> "",
     messages |-> << [role |-> "user", content |-> "I always prefer concise responses."] >>],
    [userId |-> "u1", sessionId |-> "s1", artifactId |-> "",
     messages |-> << [role |-> "assistant", content |-> "Noted."],
                     [role |-> "user", content |-> "I prefer detailed explanations."] >>],
    [userId |-> "u1", sessionId |-> "s1", artifactId |-> "a1",
     messages |-> << [role |-> "user", content |-> "I prefer brief responses."] >>] }

ReadSessionConversations ==
  { [params |-> p, extraction |-> extractFromMessages(p.messages)] : p \in ReadSessionParams }

ReadSessionExtractions ==
  { [params |-> [userId |-> "u1", sessionId |-> "s1", artifactId |-> "", messages |-> <<>>],
     extraction |->
       [entities   |-> <<"project atlas">>,
        relations  |-> << [source |-> "project atlas", target |-> "mars", type |-> "orbits"],
                          [source |-> "project atlas", target |-> "ceres",
                           type |-> "supplies"] >>,
        styleRules |-> << [rule |-> "keep answers detailed", scope |-> "global",
                           temporalMarker |-> "current", strict |-> TRUE] >>]],
    [params |-> [userId |-> "u2", sessionId |-> "s2", artifactId |-> "a1", messages |-> <<>>],
     extraction |->
       [entities   |-> <<"project atlas">>,
        relations  |-> << [source |-> "mars", target |-> "project atlas", type |-> "hosts"] >>,
        styleRules |-> << [rule |-> "use formal tone", scope |-> "global",
                           temporalMarker |-> "current", strict |-> FALSE] >>]] }

\* Conversations whose single user turn yields several style rules: two
\* patterns matching in one sentence, and two sentences
BatchParams ==
  { [userId |-> "u1", sessionId |-> "s1", artifactId |-> "",
     messages |-> << [role |-> "user", content |-> "always avoid formal tone"] >>],
    [userId |-> "u1", sessionId |-> "s1", artifactId |-> "a1",
     messages |-> << [role |-> "user", content |-> "use formal tone. use casual tone"] >>] }

BatchConversations ==
  { [params |-> p, extraction |-> extractFromMessages(p.messages)] : p \in BatchParams }

\* The rule texts and temporal markers of these invocations, and the triples
\* (new rule, existing rule, marker of the new rule) that
\* detectSimpleContradiction flags among them
RuleTexts ==
  UNION { { inv.extraction.styleRules[i].rule : i \in DOMAIN inv.extraction.styleRules } :
            inv \in ExtractAndWriteInvocations \cup WriteExtractionInvocations
                      \cup ReadSessionConversations \cup ReadSessionExtractions
                      \cup BatchConversations }

TemporalMarkers == {"current", "past", "negated"}

FlaggedTriples ==
  UNION { IF detectSimpleContradiction(t[1], t[2], t[3]) THEN {t} ELSE {} :
            t \in RuleTexts \X RuleTexts \X TemporalMarkers }

isContradiction(newRule, existingRule, newTemporalMarker) ==
  <<newRule, existingRule, newTemporalMarker>> \in FlaggedTriples

\* randomUUID(): the k-th identifier that invocation n draws
UUID(n, k) == "uuid-" \o ToString(n) \o "-" \o ToString(k)

IdleCall ==
  [pc |-> "idle", op |-> "none", n |-> 0, mode |-> "OFF", failed |-> FALSE,
   userId |-> "", sessionId |-> "", artifactId |-> "",
   entities |-> <<>>, relations |-> <<>>, styleRules |-> <<>>,
   extractionId |-> "", k |-> 0, ruleId |-> "", strategy |-> "", records |-> <<>>,
   params |-> <<>>, retry |-> FALSE, before |-> [concepts |-> {}, styleRules |-> {}],
   gen |-> 0, stmt |-> 0, created |-> <<0, 0>>, verified |-> <<0, 0>>,
   ran |-> << <<>>, <<>> >>, sessions |-> 0, body |-> ""]

\* ------------------------------------------------------------------------
\* SpecClient: any sequence of invocations of the client, the schema
\* initializer, the read path and the write path, against a store that
\* comes and goes and that may fail one session of each invocation.
\* ------------------------------------------------------------------------

FaultPlans == {<<0, "run">>} \cup ((1..MaxFaultAt) \X Faults)

ReadOps == {"queryRelevantContext", "buildGraphContext", "getGraphContextForGeneration"}
WriteOps == {"writeToGraph", "extractAndWriteToGraph"}
ClientOps == {"getDriver", "runQuery", "runWriteQuery"}

NoInvocation == [op |-> "none", res |-> Res("none"), down |-> FALSE, failed |-> FALSE]

\* The store holds nothing and no write invocation is under way.
EmptyStore ==
  /\ nodes = {}
  /\ rules = <<>>
  /\ edges = {}
  /\ call = [w \in Writers |-> IdleCall]
  /\ writes = 0
  /\ detected = {}

InitClient ==
  /\ GRAPHRAG_MODE \in EnvValues
  /\ storeUp \in BOOLEAN
  /\ _driver = FALSE
  /\ _driverInitAttempted = FALSE
  /\ _initialized = FALSE
  /\ _driver2 = FALSE
  /\ _config = "none"
  /\ _schemaInitialized = FALSE
  /\ storeCalls = 0
  /\ driversCreated = 0
  /\ last = NoInvocation
  /\ GRAPHRAG_CONTRADICTION_STRATEGY = ""
  /\ EmptyStore
  /\ faults = 0

\* The invocation op ends in client state st with result res.
Commit(op, st, res) ==
  /\ _driver' = st.driver
  /\ _driverInitAttempted' = st.attempted
  /\ _initialized' = st.initialized
  /\ _driver2' = st.driver2
  /\ _config' = st.config
  /\ _schemaInitialized' = st.schemaInitialized
  /\ storeCalls' = st.calls
  /\ driversCreated' = st.drivers
  /\ last' = [op |-> op, res |-> res, down |-> ~storeUp, failed |-> st.failed]
  /\ UNCHANGED <<GRAPHRAG_MODE, storeUp, writeVars>>

GetDriverCall ==
  \E r \in {getDriver(ClientState(0, "run"))} :
      Commit("getDriver", r.st, Res(r.ret))

RunQueryCall ==
  \E p \in FaultPlans :
    \E r \in {runQuery(ClientState(p[1], p[2]))} :
      Commit("runQuery", r.st, Res(r.ret))

RunWriteQueryCall ==
  \E p \in FaultPlans :
    \E r \in {runWriteQuery(ClientState(p[1], p[2]))} :
      Commit("runWriteQuery", r.st, Res(r.ret))

CloseDriverCall ==
  Commit("closeDriver", closeDriver(ClientState(0, "run")), Res("void"))

InitGraphRAGSchemaCall ==
  \E p \in FaultPlans :
    \E r \in {initGraphRAGSchema(ClientState(p[1], p[2]))} :
      Commit("initGraphRAGSchema", r.st, Res(r.ret))

GetDriver2Call ==
  \E p \in FaultPlans :
    \E r \in {getDriver2(ClientState(p[1], p[2]))} :
      Commit("getDriver2", r.st, Res(r.ret))

RunQuery2Call ==
  \E p \in FaultPlans :
    \E r \in {runQuery2(ClientState(p[1], p[2]))} :
      Commit("runQuery2", r.st, Res(r.ret))

CloseDriver2Call ==
  Commit("closeDriver2", closeDriver2(ClientState(0, "run")), Res("void"))

QueryRelevantContextCall ==
  \E p \in FaultPlans, hasEntities \in BOOLEAN, rw \in RowAnswers :
    \E r \in {queryRelevantContext(ClientState(p[1], p[2]), hasEntities, rw)} :
      Commit("queryRelevantContext", r.st, r.res)

BuildGraphContextCall ==
  \E p \in FaultPlans, hasNames \in BOOLEAN, rw \in RowAnswers :
    \E r \in {buildGraphContext(ClientState(p[1], p[2]), hasNames, rw)} :
      Commit("buildGraphContext", r.st, r.res)

GetGraphContextForGenerationCall ==
  \E p \in FaultPlans, hasNames \in BOOLEAN, rw \in RowAnswers :
    \E r \in {getGraphContextForGeneration(ClientState(p[1], p[2]), hasNames, rw)} :
      Commit("getGraphContextForGeneration", r.st, r.res)

WriteToGraphCall ==
  \E p \in FaultPlans, n \in 1..MaxWriteCalls :
    \E r \in {writeToGraph(ClientState(p[1], p[2]), n)} :
      Commit("writeToGraph", r.st, r.res)

ExtractAndWriteToGraphCall ==
  \E p \in FaultPlans, n \in 1..MaxWriteCalls :
    \E r \in {extractAndWriteToGraph(ClientState(p[1], p[2]), n)} :
      Commit("extractAndWriteToGraph", r.st, r.res)

\* The store becomes unreachable, or reachable again.
StoreChange ==
  /\ storeUp' = ~storeUp
  /\ UNCHANGED <<GRAPHRAG_MODE, _driver, _driverInitAttempted, _initialized, _driver2,
                 _config, _schemaInitialized, storeCalls, driversCreated, last, writeVars>>

NextClient ==
  \/ GetDriverCall
  \/ RunQueryCall
  \/ RunWriteQueryCall
  \/ CloseDriverCall
  \/ InitGraphRAGSchemaCall
  \/ GetDriver2Call
  \/ RunQuery2Call
  \/ CloseDriver2Call
  \/ QueryRelevantContextCall
  \/ BuildGraphContextCall
  \/ GetGraphContextForGenerationCall
  \/ WriteToGraphCall
  \/ ExtractAndWriteToGraphCall
  \/ StoreChange

SpecClient == InitClient /\ [][NextClient]_vars

\* ------------------------------------------------------------------------
\* graphrag-write.ts: extractAndWriteToGraph, ensureSessionArtifactNodes,
\* writeExtractionToGraph and detectAndRecordContradictions, one step for
\* each awaited runQuery.  call[w] is the activation record of invocation w.
\* ------------------------------------------------------------------------

AllIdle == \A w \in Writers : call[w].pc = "idle"

Returning(c) == [c EXCEPT !.pc = "return"]

\* detectAndRecordContradictions: the loop over result.records, up to the
\* next record that detectSimpleContradiction flags
RECURSIVE NextRecord(_)
NextRecord(c) ==
  IF c.records = <<>> THEN [c EXCEPT !.pc = "insertRule"]
  ELSE IF isContradiction(Head(c.styleRules).rule, Head(c.records).rule,
                          Head(c.styleRules).temporalMarker)
       THEN [c EXCEPT !.pc = "recordContradiction"]
       ELSE Await([c EXCEPT !.records = Tail(@)], LAMBDA c1 : NextRecord(c1))

\* writeExtractionToGraph: the loops over styleRules, relations and entities
NextRule(c) ==
  IF c.styleRules = <<>> THEN Returning(c)
  ELSE [c EXCEPT !.pc = "findExisting", !.k = c.k + 1, !.ruleId = UUID(c.n, c.k + 1)]

ToRules(c) ==
  NextRule([c EXCEPT !.strategy = contradictionStrategy(GRAPHRAG_CONTRADICTION_STRATEGY)])

NextRelation(c) ==
  IF c.relations = <<>> THEN ToRules(c) ELSE [c EXCEPT !.pc = "upsertRelation"]

NextEntity(c) ==
  IF c.entities = <<>> THEN NextRelation(c) ELSE [c EXCEPT !.pc = "upsertConcept"]

\* writeExtractionToGraph were it to upsert the concepts before it creates
\* the Extraction node
ToWriteConceptsFirst(c) ==
  [c EXCEPT !.pc = IF c.entities # <<>> THEN "upsertConcept" ELSE "createExtraction",
            !.extractionId = UUID(c.n, 0)]

ToWrite(c) == [c EXCEPT !.pc = "createExtraction", !.extractionId = UUID(c.n, 0)]

\* extractAndWriteToGraph: after ensureSessionArtifactNodes
AfterEnsure(c) ==
  IF c.entities = <<>> /\ c.styleRules = <<>> THEN Returning(c) ELSE ToWrite(c)

\* The invocation w ends and hands res to its caller.
Return(w, res, failed) ==
  /\ call' = [call EXCEPT ![w] = IdleCall]
  /\ last' = [op |-> call[w].op, res |-> Res(res), down |-> ~storeUp,
              failed |-> call[w].failed \/ failed, params |-> call[w].params,
              retry |-> call[w].retry, before |-> call[w].before]

SessionFaults == {<<0, "run">>} \cup ({1} \X Faults)

\* One awaited runQuery of invocation w.  Its statement turns the graph into
\* G2 when session.run succeeds.  The invocation goes on as cRows when the
\* call returns a result and as cNull when it returns null; when the call
\* raises, the catch block of extractAndWriteToGraph decides.
Query(w, G2, cRows, cNull) ==
  \E p \in IF faults > 0 THEN SessionFaults ELSE {<<0, "run">>} :
  \E o \in {runQuery2(ClientState(p[1], p[2]))} :
    /\ nodes' = IF o.st.ran THEN G2.nodes ELSE nodes
    /\ rules' = IF o.st.ran THEN G2.rules ELSE rules
    /\ edges' = IF o.st.ran THEN G2.edges ELSE edges
    /\ _driver2' = o.st.driver2
    /\ _config' = o.st.config
    /\ _schemaInitialized' = o.st.schemaInitialized
    /\ storeCalls' = o.st.calls
    /\ driversCreated' = o.st.drivers
    /\ faults' = IF p[1] = 1 /\ o.st.fk = 0 THEN faults - 1 ELSE faults
    /\ IF o.ret = "raise"
       THEN Return(w, IF call[w].op = "extractAndWriteToGraph" /\ call[w].mode # "REQUIRED"
                      THEN "void" ELSE "raise", TRUE)
       ELSE \E c \in {IF o.ret = "rows" THEN cRows ELSE cNull} :
              IF c.pc = "return" THEN Return(w, "void", o.st.failed)
              ELSE /\ call' = [call EXCEPT ![w] = [c EXCEPT !.failed = @ \/ o.st.failed]]
                   /\ UNCHANGED last
    /\ UNCHANGED <<GRAPHRAG_MODE, GRAPHRAG_CONTRADICTION_STRATEGY, storeUp, _driver,
                   _driverInitAttempted, _initialized, writes>>

\* The Concept nodes of the graph
ConceptNodes == { n \in nodes : n[1] = "Concept" }

\* The caller invokes extractAndWriteToGraph again with the params of the
\* invocation that has just ended without a failure.
IsRetry(params) ==
  /\ last.op = "extractAndWriteToGraph"
  /\ getGraphRAGMode2(GRAPHRAG_MODE) # "OFF"
  /\ ~last.failed
  /\ last.params = params

\* extractAndWriteToGraph(params) is invoked, with one of the invocations invs.
StartExtractAndWrite(w, invs) ==
  /\ call[w].pc = "idle"
  /\ writes < MaxWrites
  /\ writes' = writes + 1
  /\ \E inv \in invs :
       IF getGraphRAGMode2(GRAPHRAG_MODE) = "OFF"
       THEN /\ last' = [op |-> "extractAndWriteToGraph", res |-> Res("void"),
                        down |-> ~storeUp, failed |-> FALSE, params |-> inv.params,
                        retry |-> FALSE, before |-> IdleCall.before]
            /\ UNCHANGED call
       ELSE /\ call' = [call EXCEPT ![w] =
                 [IdleCall EXCEPT !.pc = "mergeUser", !.op = "extractAndWriteToGraph",
                                  !.n = writes + 1, !.mode = getGraphRAGMode2(GRAPHRAG_MODE),
                                  !.params = inv.params,
                                  !.retry = IsRetry(inv.params),
                                  !.before = IF IsRetry(inv.params)
                                             THEN [concepts |-> ConceptNodes,
                                                   styleRules |-> DOMAIN rules]
                                             ELSE @,
                                  !.userId = inv.params.userId,
                                  !.sessionId = inv.params.sessionId,
                                  !.artifactId = inv.params.artifactId,
                                  !.entities = inv.extraction.entities,
                                  !.relations = inv.extraction.relations,
                                  !.styleRules = inv.extraction.styleRules]]
            /\ UNCHANGED last
  /\ UNCHANGED <<client, GRAPHRAG_CONTRADICTION_STRATEGY, nodes, rules, edges,
                 faults, detected>>

ExtractAndWriteToGraphStart(w) == StartExtractAndWrite(w, ExtractAndWriteInvocations)

\* writeExtractionToGraph(params, extraction) is invoked by a caller that
\* made the extraction itself, with one of the invocations invs.
StartWriteExtraction(w, invs) ==
  /\ call[w].pc = "idle"
  /\ writes < MaxWrites
  /\ writes' = writes + 1
  /\ \E inv \in invs :
       call' = [call EXCEPT ![w] =
         ToWrite([IdleCall EXCEPT !.op = "writeExtractionToGraph", !.n = writes + 1,
                                  !.mode = getGraphRAGMode2(GRAPHRAG_MODE),
                                  !.params = inv.params,
                                  !.userId = inv.params.userId,
                                  !.sessionId = inv.params.sessionId,
                                  !.artifactId = inv.params.artifactId,
                                  !.entities = inv.extraction.entities,
                                  !.relations = inv.extraction.relations,
                                  !.styleRules = inv.extraction.styleRules])]
  /\ UNCHANGED <<client, GRAPHRAG_CONTRADICTION_STRATEGY, nodes, rules, edges,
                 faults, detected, last>>

WriteExtractionToGraphStart(w) == StartWriteExtraction(w, WriteExtractionInvocations)

MergeUserCall(w) ==
  /\ call[w].pc = "mergeUser"
  /\ \E c \in {call[w]} :
     \E c1 \in {[c EXCEPT !.pc = "mergeSession"]} :
       Query(w, MergeUser(Graph, c.userId), c1, c1)
  /\ UNCHANGED detected

MergeSessionCall(w) ==
  /\ call[w].pc = "mergeSession"
  /\ \E c \in {call[w]} :
     \E c1 \in {IF c.artifactId # "" THEN [c EXCEPT !.pc = "mergeArtifact"]
                ELSE AfterEnsure(c)} :
       Query(w, MergeSession(Graph, c.sessionId, c.userId), c1, c1)
  /\ UNCHANGED detected

MergeArtifactCall(w) ==
  /\ call[w].pc = "mergeArtifact"
  /\ \E c \in {call[w]} :
     \E c1 \in {AfterEnsure(c)} :
       Query(w, MergeArtifact(Graph, c.artifactId, c.sessionId, c.userId), c1, c1)
  /\ UNCHANGED detected

CreateExtractionCall(w) ==
  /\ call[w].pc = "createExtraction"
  /\ \E c \in {call[w]} :
     \E c1 \in {[c EXCEPT !.pc = "linkSession"]} :
       Query(w, CreateExtraction(Graph, c.extractionId), c1, c1)
  /\ UNCHANGED detected

LinkSessionCall(w) ==
  /\ call[w].pc = "linkSession"
  /\ \E c \in {call[w]} :
     \E c1 \in {IF c.artifactId # "" THEN [c EXCEPT !.pc = "linkArtifact"]
                ELSE NextEntity(c)} :
       Query(w, LinkSession(Graph, c.extractionId, c.sessionId), c1, c1)
  /\ UNCHANGED detected

LinkArtifactCall(w) ==
  /\ call[w].pc = "linkArtifact"
  /\ \E c \in {call[w]} :
     \E c1 \in {NextEntity(c)} :
       Query(w, LinkArtifact(Graph, c.extractionId, c.artifactId), c1, c1)
  /\ UNCHANGED detected

UpsertConceptCall(w) ==
  /\ call[w].pc = "upsertConcept"
  /\ \E c \in {call[w]} :
     \E c1 \in {IF c.artifactId # "" THEN [c EXCEPT !.pc = "linkMention"]
                ELSE NextEntity([c EXCEPT !.entities = Tail(@)])} :
       Query(w, UpsertConcept(Graph, Head(c.entities), c.extractionId), c1, c1)
  /\ UNCHANGED detected

LinkMentionCall(w) ==
  /\ call[w].pc = "linkMention"
  /\ \E c \in {call[w]} :
     \E c1 \in {NextEntity([c EXCEPT !.entities = Tail(@)])} :
       Query(w, LinkMention(Graph, c.artifactId, Head(c.entities)), c1, c1)
  /\ UNCHANGED detected

UpsertRelationCall(w) ==
  /\ call[w].pc = "upsertRelation"
  /\ \E c \in {call[w]} :
     \E c1 \in {NextRelation([c EXCEPT !.relations = Tail(@)])} :
       Query(w, UpsertRelation(Graph, Head(c.relations), c.extractionId), c1, c1)
  /\ UNCHANGED detected

\* detectAndRecordContradictions: the query for the active rules of the user
\* in the scope of the new rule; if (!result || !result.records) return
FindExistingCall(w) ==
  /\ call[w].pc = "findExisting"
  /\ \E c \in {call[w]} :
     \E records \in Orders(ActiveRuleRecords(Graph, c.userId, Head(c.styleRules).scope)) :
     \E c1 \in {NextRecord([c EXCEPT !.records = records])} :
       Query(w, Graph, c1, [c EXCEPT !.pc = "insertRule"])
  /\ UNCHANGED detected

RecordContradictionCall(w) ==
  /\ call[w].pc = "recordContradiction"
  /\ \E c \in {call[w]} :
     \E step \in {resolutionStep(Head(c.records).strict, c.strategy)} :
     \E c1 \in {IF step = "none" THEN NextRecord([c EXCEPT !.records = Tail(@)])
                ELSE [c EXCEPT !.pc = step]} :
       /\ Query(w, RecordContradiction(Graph, c.ruleId, Head(c.records).ruleId,
                                       c.extractionId, c.strategy), c1, c1)
       /\ detected' = detected \cup
            { [new |-> c.ruleId, old |-> Head(c.records).ruleId,
               strict |-> Head(c.records).strict,
               temporalMarker |-> Head(c.records).temporalMarker,
               strategy |-> c.strategy, n |-> c.n] }

MarkPendingCall(w) ==
  /\ call[w].pc = "markPending"
  /\ \E c \in {call[w]} :
     \E c1 \in {NextRecord([c EXCEPT !.records = Tail(@)])} :
       Query(w, MarkPending(Graph, c.ruleId), c1, c1)
  /\ UNCHANGED detected

DeactivateOldCall(w) ==
  /\ call[w].pc = "deactivateOld"
  /\ \E c \in {call[w]} :
     \E c1 \in {NextRecord([c EXCEPT !.records = Tail(@)])} :
       Query(w, DeactivateOld(Graph, Head(c.records).ruleId), c1, c1)
  /\ UNCHANGED detected

InsertRuleCall(w) ==
  /\ call[w].pc = "insertRule"
  /\ \E c \in {call[w]} :
     \E c1 \in {NextRule([c EXCEPT !.styleRules = Tail(@), !.records = <<>>])} :
       Query(w, InsertRule(Graph, c.ruleId, Head(c.styleRules), c.userId, c.extractionId),
             c1, c1)
  /\ UNCHANGED detected

\* The store becomes unreachable, or reachable again.
Outage ==
  /\ storeUp => faults > 0
  /\ storeUp' = ~storeUp
  /\ faults' = IF storeUp THEN faults - 1 ELSE faults
  /\ UNCHANGED <<GRAPHRAG_MODE, _driver, _driverInitAttempted, _initialized, _driver2,
                 _config, _schemaInitialized, storeCalls, driversCreated, last,
                 GRAPHRAG_CONTRADICTION_STRATEGY, nodes, rules, edges, call, writes,
                 detected>>

\* A fresh process and an empty store
FreshProcess ==
  /\ GRAPHRAG_MODE \in {"OFF", "OPTIONAL", "REQUIRED"}
  /\ GRAPHRAG_CONTRADICTION_STRATEGY \in {""} \cup ContradictionStrategies
  /\ storeUp = TRUE
  /\ _driver = FALSE
  /\ _driverInitAttempted = FALSE
  /\ _initialized = FALSE
  /\ _driver2 = FALSE
  /\ _config = "none"
  /\ _schemaInitialized = FALSE
  /\ storeCalls = 0
  /\ driversCreated = 0
  /\ last = NoInvocation
  /\ EmptyStore

\* The steps of an invocation under way
WriteCalls(w) ==
  \/ MergeUserCall(w)
  \/ MergeSessionCall(w)
  \/ MergeArtifactCall(w)
  \/ CreateExtractionCall(w)
  \/ LinkSessionCall(w)
  \/ LinkArtifactCall(w)
  \/ UpsertConceptCall(w)
  \/ LinkMentionCall(w)
  \/ UpsertRelationCall(w)
  \/ FindExistingCall(w)
  \/ RecordContradictionCall(w)
  \/ MarkPendingCall(w)
  \/ DeactivateOldCall(w)
  \/ InsertRuleCall(w)

WriteStep(w) ==
  \/ ExtractAndWriteToGraphStart(w)
  \/ WriteExtractionToGraphStart(w)
  \/ WriteCalls(w)

\* SpecWrite: write invocations one after the other against a healthy store.
InitWrite == FreshProcess /\ faults = 0

NextWrite == \E w \in SequentialWriters : WriteStep(w)

SpecWrite == InitWrite /\ [][NextWrite]_vars

\* SpecWriteFaulty: the same, against a store that fails MaxFaults times.
InitWriteFaulty == FreshProcess /\ faults = MaxFaults

NextWriteFaulty == NextWrite \/ Outage

SpecWriteFaulty == InitWriteFaulty /\ [][NextWriteFaulty]_vars

Mode == getGraphRAGMode(GRAPHRAG_MODE)

C2_OptionalReadFailureIsNull ==
  (Mode = "OPTIONAL" /\ last.op \in ReadOps /\ (last.down \/ last.failed))
    => last.res.kind = "null"

\* C3: with mode OPTIONAL a writeToGraph invocation one of whose store calls
\* fails or finds no connection returns false and does not raise.
C3_OptionalWriteFailureIsFalse ==
  (Mode = "OPTIONAL" /\ last.op = "writeToGraph" /\ (last.down \/ last.failed))
    => last.res.kind = "false"

\* C4: with mode REQUIRED every read or write invocation made while the
\* store is unreachable or failing raises, the first one and every later one.
C4_RequiredFailureRaises ==
  (Mode = "REQUIRED" /\ last.op \in ReadOps \cup WriteOps /\ (last.down \/ last.failed))
    => last.res.kind = "raise"

\* C5: with mode OPTIONAL getDriver, runQuery and runWriteQuery never raise,
\* whatever the store does.
C5_OptionalClientNeverRaises ==
  (Mode = "OPTIONAL" /\ last.op \in ClientOps) => last.res.kind # "raise"

\* ------------------------------------------------------------------------
\* Contradictions between style rules and provenance (SpecWrite)
\* ------------------------------------------------------------------------

\* A CONTRADICTS edge from rule newRuleId to rule oldRuleId is in the graph.
Contradicts(newRuleId, oldRuleId) ==
  \E e \in edges : /\ e.type = "CONTRADICTS"
                   /\ e.from = Node("StyleRule", newRuleId)
                   /\ e.to = Node("StyleRule", oldRuleId)

\* The Extraction nodes with a CREATED or ASSERTED edge to the node.
ProvenanceOf(node) ==
  { e.from : e \in { f \in edges : /\ f.type \in {"CREATED", "ASSERTED"}
                                   /\ f.from[1] = "Extraction"
                                   /\ f.to = node } }

\* The Concept and StyleRule nodes of the graph.
ConceptAndRuleNodes ==
  { n \in nodes : n[1] = "Concept" } \cup { Node("StyleRule", r) : r \in DOMAIN rules }

\* The pairs flagged in the write invocation that has just ended.
DetectedInLastWrite == { d \in detected : d.n = writes }

\* C6: whenever detectSimpleContradiction flags the new rule against an
\* existing active rule, the CONTRADICTS edge from the new rule to the
\* existing rule is in the graph as soon as the recording statement has run,
\* that is before the resolution step that follows it.
C6_ContradictsRecordedFirst ==
  \A d \in detected : Contradicts(d.new, d.old)

\* C7: after a write invocation under most-recent-wins has ended, of every
\* pair it flagged exactly one rule is active and a CONTRADICTS edge lies
\* between the two.
C7_MostRecentWinsOneActive ==
  AllIdle =>
    \A d \in DetectedInLastWrite :
      d.strategy = "most-recent-wins" =>
        /\ d.new \in DOMAIN rules
        /\ rules[d.new].active # rules[d.old].active
        /\ Contradicts(d.new, d.old) \/ Contradicts(d.old, d.new)

\* C8: after a write invocation has ended, every new rule it flagged against
\* an existing strict rule is in the graph with active = false and
\* pendingConfirmation = true, and the strict rule is still active, whatever
\* the strategy.
C8_StrictKeepsNewRulePending ==
  AllIdle =>
    \A d \in DetectedInLastWrite :
      d.strict =>
        /\ d.new \in DOMAIN rules
        /\ ~rules[d.new].active
        /\ rules[d.new].pendingConfirmation
        /\ rules[d.old].active

\* C9: under user-confirmation, a pair flagged against an existing rule that
\* is not strict keeps both rules active: the existing rule stays active with
\* the temporalMarker it had, the new rule is active from its insertion on,
\* and it is inserted by the time the invocation ends.
C9_UserConfirmationKeepsBoth ==
  \A d \in detected :
    (d.strategy = "user-confirmation" /\ ~d.strict) =>
      /\ rules[d.old].active
      /\ rules[d.old].temporalMarker = d.temporalMarker
      /\ d.new \in DOMAIN rules => rules[d.new].active
      /\ AllIdle => d.new \in DOMAIN rules

\* A write under user-confirmation has flagged a pair with a non-strict
\* existing rule, inserted the new rule and ended.
C9_Witness ==
  /\ AllIdle
  /\ \E d \in DetectedInLastWrite :
       /\ d.strategy = "user-confirmation"
       /\ ~d.strict
       /\ d.new \in DOMAIN rules
       /\ rules[d.new].active
       /\ rules[d.old].active

\* C10: when no write invocation is under way, every Concept node and every
\* StyleRule node has CREATED/ASSERTED edges from exactly one Extraction
\* node.
C10_ProvenanceClosure ==
  AllIdle => \A n \in ConceptAndRuleNodes : Cardinality(ProvenanceOf(n)) = 1

\* ------------------------------------------------------------------------
\* Provenance when store calls fail (SpecWriteFaulty)
\* ------------------------------------------------------------------------

\* The RELATED_TO edges of the graph.  The second-generation write path keeps
\* the provenance of such an edge in its property extractionId.
RelatedToEdges == { e \in edges : e.type = "RELATED_TO" }

EdgeProvenance(e) == { n \in nodes : n = Node("Extraction", e.props[2]) }

\* C11: in every reachable state, also when store calls of a write fail, no
\* Concept node, StyleRule node or RELATED_TO edge is without a provenance
\* link from an Extraction node.
C11_NoFactWithoutProvenance ==
  /\ \A n \in ConceptAndRuleNodes : ProvenanceOf(n) # {}
  /\ \A e \in RelatedToEdges : EdgeProvenance(e) # {}

\* ------------------------------------------------------------------------
\* graphrag-write.ts, first generation: writeToGraph on the graph
\* (SpecWriteToGraph).  Nodes are keyed by id; a StyleRule node carries
\* category, content, scope and temporalMarker.  datetime() is the time of
\* the invocation, which advances from one invocation to the next.
\* ------------------------------------------------------------------------

\* The user that initGraphRAGSchema merges into the store
DefaultUserId == "00000000-0000-0000-0000-000000000001"

\* LIMIT 5 of the contradiction check
ExistingRulesLimit == 5

WritePathInputs ==
  { [userId |-> DefaultUserId, sessionId |-> "s1", artifactId |-> "a1",
     entities |-> <<"Atlas">>,
     triples |-> << [subject |-> "Atlas", predicate |-> "orbits", object |-> "Mars"] >>,
     styleRules |-> << [id |-> "r1", category |-> "tone", content |-> "formal",
                        scope |-> "global", temporalMarker |-> "current"] >>,
     extractionId |-> "e1"],
    [userId |-> DefaultUserId, sessionId |-> "s1", artifactId |-> "",
     entities |-> <<>>, triples |-> <<>>,
     styleRules |-> << [id |-> "r2", category |-> "tone", content |-> "casual",
                        scope |-> "global", temporalMarker |-> "current"] >>,
     extractionId |-> "e2"],
    [userId |-> "u9", sessionId |-> "", artifactId |-> "",
     entities |-> <<"Atlas">>, triples |-> <<>>,
     styleRules |-> << [id |-> "r3", category |-> "tone", content |-> "brief",
                        scope |-> "global", temporalMarker |-> "past"] >>,
     extractionId |-> "e3"] }

\* createExtractionNode
createExtractionNode(G, extractionId, sessionId, artifactId) ==
  Await(AddNode(G, "Extraction", extractionId), LAMBDA G1 :
  Await(IF sessionId = "" THEN G1
        ELSE AddEdge(AddNode(G1, "Session", sessionId),
                     Edge("EXTRACTED_FROM", Node("Extraction", extractionId),
                          Node("Session", sessionId), <<>>)), LAMBDA G2 :
    IF artifactId = "" THEN G2
    ELSE AddEdge(AddNode(G2, "Artifact", artifactId),
                 Edge("EXTRACTED_FROM_ARTIFACT", Node("Extraction", extractionId),
                      Node("Artifact", artifactId), <<>>))))

\* upsertConcept
upsertConcept(G, name, extractionId) == UpsertConcept(G, toLowerCase(name), extractionId)

\* upsertRelation
upsertRelation(G, triple, extractionId) ==
  LET s == Node("Concept", toLowerCase(triple.subject))
      o == Node("Concept", toLowerCase(triple.object))
  IN Await(AddEdge([G EXCEPT !.nodes = @ \cup {s, o}],
                   Edge("RELATED_TO", s, o, <<triple.predicate>>)), LAMBDA G1 :
       IF ~Has(G1, "Extraction", extractionId) THEN G1
       ELSE AddEdge(G1, Edge("ASSERTED", Node("Extraction", extractionId), s, <<>>)))

\* upsertStyleRule: the contradiction check (one record for each PREFERS
\* edge), the upsert of the rule, and a CONTRADICTS edge for each record
upsertStyleRule(G, userId, rule, extractionId, now) ==
  LET existingRules ==
        { e.to[2] : e \in { f \in G.edges :
            /\ f.type = "PREFERS"
            /\ f.from = Node("User", userId)
            /\ Has(G, "User", userId)
            /\ HasRule(G, f.to[2])
            /\ G.rules[f.to[2]].category = rule.category
            /\ G.rules[f.to[2]].scope = rule.scope
            /\ G.rules[f.to[2]].temporalMarker = "current"
            /\ f.to[2] # rule.id } }
      r == Node("StyleRule", rule.id)
      upserted ==
        SetRule(G, rule.id,
                IF HasRule(G, rule.id)
                THEN [G.rules[rule.id] EXCEPT !.content = rule.content,
                                              !.temporalMarker = rule.temporalMarker]
                ELSE [category |-> rule.category, content |-> rule.content,
                      scope |-> rule.scope, temporalMarker |-> rule.temporalMarker])
      linked(G1) ==
        IF ~Has(G1, "User", userId) THEN G1
        ELSE Await(AddEdge(G1, Edge("PREFERS", Node("User", userId), r,
                                    <<now, rule.scope, rule.temporalMarker>>)), LAMBDA G2 :
               IF ~Has(G2, "Extraction", extractionId) THEN G2
               ELSE AddEdge(G2, Edge("CREATED", Node("Extraction", extractionId), r, <<>>)))
  IN Await(linked(upserted), LAMBDA G3 :
       [G3 EXCEPT !.edges = @ \cup
          { Edge("CONTRADICTS", r, Node("StyleRule", x), <<now, extractionId>>) :
              x \in existingRules }])

\* writeToGraph: the statements of one invocation, applied in order from
\* statement k on (1 createExtractionNode, then the entities, the triples and
\* the style rules)
RECURSIVE writeStatements(_, _, _, _)
writeStatements(G, input, now, k) ==
  LET ne == Len(input.entities)
      nt == Len(input.triples)
      nr == Len(input.styleRules)
  IN IF k > 1 + ne + nt + nr THEN G
     ELSE Await(IF k = 1
                THEN createExtractionNode(G, input.extractionId, input.sessionId,
                                          input.artifactId)
                ELSE IF k <= 1 + ne
                THEN upsertConcept(G, input.entities[k - 1], input.extractionId)
                ELSE IF k <= 1 + ne + nt
                THEN upsertRelation(G, input.triples[k - 1 - ne], input.extractionId)
                ELSE upsertStyleRule(G, input.userId, input.styleRules[k - 1 - ne - nt],
                                     input.extractionId, now),
                LAMBDA G1 : writeStatements(G1, input, now, k + 1))

\* An invocation of the first-generation write path or of initGraphRAGSchema
\* ends: the module state st, the result res, the graph G it leaves, and the
\* input it was given.
CommitGraph(op, st, res, G, input) ==
  /\ _driver' = st.driver
  /\ _driverInitAttempted' = st.attempted
  /\ _initialized' = st.initialized
  /\ _driver2' = st.driver2
  /\ _config' = st.config
  /\ _schemaInitialized' = st.schemaInitialized
  /\ storeCalls' = st.calls
  /\ driversCreated' = st.drivers
  /\ last' = [op |-> op, res |-> res, down |-> ~storeUp, failed |-> st.failed,
              input |-> input]
  /\ nodes' = G.nodes
  /\ rules' = G.rules
  /\ edges' = G.edges
  /\ UNCHANGED <<GRAPHRAG_MODE, storeUp, GRAPHRAG_CONTRADICTION_STRATEGY, call, faults,
                 detected>>

\* initGraphRAGSchema against a healthy store: when the statements run, the
\* last of them merges the default user.
InitGraphRAGSchemaRun ==
  /\ \E r \in {initGraphRAGSchema(ClientState(0, "run"))} :
       CommitGraph("initGraphRAGSchema", r.st, Res(r.ret),
                   IF r.ret = "true" /\ ~_initialized /\ getGraphRAGMode(GRAPHRAG_MODE) # "OFF"
                   THEN MergeUser(Graph, DefaultUserId) ELSE Graph,
                   "none")
  /\ UNCHANGED writes

\* writeToGraph(input) against a healthy store
WriteToGraphRun(input) ==
  /\ writes < MaxWrites
  /\ Cardinality({ e \in edges : e.type = "PREFERS" }) + Len(input.styleRules)
       <= ExistingRulesLimit
  /\ writes' = writes + 1
  /\ \E r \in {writeToGraph(ClientState(0, "run"),
                             1 + Len(input.entities) + Len(input.triples)
                               + Len(input.styleRules))} :
       CommitGraph("writeToGraph", r.st, r.res,
                   IF r.res.kind = "true" THEN writeStatements(Graph, input, writes + 1, 1)
                   ELSE Graph,
                   input)

InitWriteToGraph == FreshProcess /\ faults = 0

NextWriteToGraph ==
  \/ InitGraphRAGSchemaRun
  \/ \E input \in WritePathInputs : WriteToGraphRun(input)

SpecWriteToGraph == InitWriteToGraph /\ [][NextWriteToGraph]_vars

\* The number of nodes and, for each type, the number of edges
NodeAndEdgeCounts ==
  [nodes |-> Cardinality(nodes) + Cardinality(DOMAIN rules),
   edges |-> [t \in { e.type : e \in edges } |->
               Cardinality({ e \in edges : e.type = t })]]

\* C12: when writeToGraph is invoked again with the input of the invocation
\* that has just succeeded, the numbers of nodes and of edges of every type
\* stay what they were.
C12_SecondWriteIsNoOp ==
  [][\A input \in WritePathInputs :
       (/\ last.op = "writeToGraph"
        /\ last.res.kind = "true"
        /\ last.input = input
        /\ WriteToGraphRun(input)) => NodeAndEdgeCounts' = NodeAndEdgeCounts]_vars

\* C13: when extractAndWriteToGraph has been invoked again with the params
\* of the invocation before it and has ended, the Concept nodes and the
\* StyleRule nodes are those that the first invocation left.
C13_RetryCreatesNoDuplicate ==
  (AllIdle /\ last.op = "extractAndWriteToGraph" /\ last.retry) =>
    /\ ConceptNodes = last.before.concepts
    /\ DOMAIN rules = last.before.styleRules

\* ------------------------------------------------------------------------
\* graphrag-read (second generation) on the graph (SpecRead): the queries of
\* buildGraphContext as functions of the graph.  A node's elementId is the
\* node itself.  A query without ORDER BY returns its records in an order of
\* the store's choosing, and LIMIT keeps the first ones of that order.
\* ------------------------------------------------------------------------

SKIP_WORDS ==
  { "the", "this", "that", "with", "from", "have", "been", "will", "would", "could",
    "should", "about", "what", "when", "where", "which", "there", "their", "here",
    "just", "also", "then", "than", "more", "some", "other", "please", "thanks",
    "hello", "sure" }

\* extractEntityNamesFromText: the loops over the proper nouns (quoted FALSE)
\* and over the quoted and backquoted terms (quoted TRUE)
RECURSIVE CleanNames(_, _)
CleanNames(candidates, quoted) ==
  IF candidates = <<>> THEN <<>>
  ELSE Await(toLowerCase(IF quoted THEN trim(candidates[1]) ELSE candidates[1]),
             LAMBDA clean :
         (IF Len(clean) > 2 /\ (quoted \/ clean \notin SKIP_WORDS) THEN <<clean>> ELSE <<>>)
         \o CleanNames(Tail(candidates), quoted))

extractEntityNamesFromText(promptText, artifactContent) ==
  Await(IF artifactContent = "" THEN promptText
        ELSE IF promptText = "" THEN artifactContent
        ELSE promptText \o " " \o artifactContent, LAMBDA text :
  Await(Deduplicate(CleanNames(properNouns(text, 1), FALSE)
                    \o CleanNames(quotedTerms(text, QuotationMark, 1), TRUE)
                    \o CleanNames(quotedTerms(text, Backquote, 1), TRUE)), LAMBDA names :
    SubSeq(names, 1, IF Len(names) < 20 THEN Len(names) ELSE 20)))

\* LIMIT n over the records S: any n of them (all when there are fewer), in
\* any order
Limit(S, n) ==
  UNION { IF Cardinality(T) = (IF Cardinality(S) < n THEN Cardinality(S) ELSE n)
          THEN Orders(T) ELSE {} : T \in SUBSET S }

\* A GraphEntity for a node: id, labels[0], properties.name ("" when the node
\* has none)
GraphEntity(node) ==
  [id |-> node, label |-> node[1], name |-> IF node[1] = "Concept" THEN node[2] ELSE ""]

\* MATCH (c:Concept) WHERE c.name IN $names
MatchedConcepts(G, names) ==
  { n \in G.nodes : n[1] = "Concept" /\ \E k \in DOMAIN names : names[k] = n[2] }

\* resolveConceptNodes: the lists it may return
resolveConceptNodes(G, entityNames, maxNodes) ==
  IF entityNames = <<>> THEN {<<>>}
  ELSE { [k \in DOMAIN o |-> GraphEntity(o[k])] :
           o \in Limit(MatchedConcepts(G, entityNames), maxNodes) }

\* traverseNeighborhood: MATCH (c:Concept)-[r:RELATED_TO|MENTIONS]-(neighbor)
\* WHERE c.name IN $names gives one record for each relationship r and each
\* end c of it that is a matched concept; the lists of records it may return,
\* each record with its neighbour entity and its relation
traverseNeighborhood(G, entityNames, maxEdges) ==
  IF entityNames = <<>> THEN {<<>>}
  ELSE LET matched == MatchedConcepts(G, entityNames)
           records ==
             UNION { { [c |-> c, r |-> r] : c \in {r.from, r.to} \cap matched } :
                       r \in { e \in G.edges : e.type \in {"RELATED_TO", "MENTIONS"} } }
           neighbor(rec) == IF rec.r.from = rec.c THEN rec.r.to ELSE rec.r.from
       IN { [k \in DOMAIN o |->
              [neighbor |-> GraphEntity(neighbor(o[k])),
               relation |-> [source |-> o[k].c, target |-> neighbor(o[k]),
                             type |-> o[k].r.type, properties |-> o[k].r.props]]] :
              o \in Limit(records, maxEdges) }

\* The style rule record of the rule sr, and the lists of records ordered by
\* since, latest first
StyleRuleRecord(G, sr) ==
  [id |-> sr, rule |-> G.rules[sr].rule, scope |-> G.rules[sr].scope,
   temporalMarker |-> G.rules[sr].temporalMarker, since |-> G.rules[sr].since,
   strict |-> G.rules[sr].strict,
   contradicts |-> { c.to[2] : c \in { f \in G.edges :
                       f.type = "CONTRADICTS" /\ f.from = Node("StyleRule", sr) } }]

OrderBySinceDesc(records) ==
  { o \in Orders(records) : \A i, j \in DOMAIN o : i < j => o[i].since >= o[j].since }

\* retrieveActiveStyleRules without the User node in its pattern
retrieveStyleRulesOfAnyUser(G, userId) ==
  OrderBySinceDesc({ StyleRuleRecord(G, e.to[2]) : e \in { f \in G.edges :
                       /\ f.type = "PREFERS"
                       /\ HasRule(G, f.to[2])
                       /\ G.rules[f.to[2]].active
                       /\ f.props[2] = "current" } })

\* retrieveActiveStyleRules without {active: true} in its pattern
retrieveStyleRulesIgnoringActive(G, userId) ==
  OrderBySinceDesc({ StyleRuleRecord(G, e.to[2]) : e \in { f \in G.edges :
                       /\ f.type = "PREFERS"
                       /\ f.from = Node("User", userId)
                       /\ Has(G, "User", userId)
                       /\ HasRule(G, f.to[2])
                       /\ f.props[2] = "current" } })

\* retrieveActiveStyleRules: one record for each rule sr that the user PREFERS
\* over a relationship with temporalMarker 'current' and that has active true,
\* ORDER BY sr.since DESC; the lists it may return
retrieveActiveStyleRules(G, userId) ==
  OrderBySinceDesc({ StyleRuleRecord(G, e.to[2]) : e \in { f \in G.edges :
                       /\ f.type = "PREFERS"
                       /\ f.from = Node("User", userId)
                       /\ Has(G, "User", userId)
                       /\ HasRule(G, f.to[2])
                       /\ G.rules[f.to[2]].active
                       /\ f.props[2] = "current" } })

\* gatherCitations: one record for each CREATED relationship from an
\* Extraction to one of the entities or rules, with the session and the
\* artifact of the extraction ("" when it has none); the records as a set
gatherCitations(G, entityIds, ruleIds) ==
  IF entityIds = {} /\ ruleIds = {} THEN {}
  ELSE LET linked(e, type) ==
             { f.to[2] : f \in { g \in G.edges : g.type = type /\ g.from = e.from } }
             \cup (IF \E g \in G.edges : g.type = type /\ g.from = e.from THEN {} ELSE {""})
       IN UNION { { [extractionId |-> e.from[2], target |-> e.to, sessionId |-> s,
                     artifactId |-> a] :
                      s \in linked(e, "EXTRACTED_FROM"),
                      a \in linked(e, "EXTRACTED_FROM_ARTIFACT") } :
                    e \in { f \in G.edges :
                              /\ f.type = "CREATED"
                              /\ f.from[1] = "Extraction"
                              /\ \/ f.to \in entityIds
                                 \/ f.to[1] = "StyleRule" /\ f.to[2] \in ruleIds } }

\* deduplicateEntities: the first entity of each id, in the order of the list
RECURSIVE deduplicateEntities(_)
deduplicateEntities(entities) ==
  IF entities = <<>> THEN <<>>
  ELSE Await(deduplicateEntities(SubSeq(entities, 1, Len(entities) - 1)), LAMBDA seen :
         IF \E k \in DOMAIN seen : seen[k].id = entities[Len(entities)].id
         THEN seen ELSE Append(seen, entities[Len(entities)]))

\* params.maxNodes ?? config.maxNodes: an absent parameter is <<>>
Nullish(x, default) == IF x = <<>> THEN default ELSE x[1]

\* What buildGraphContext returns when it returns null
NullContext == [isNull |-> TRUE, entities |-> <<>>, relations |-> <<>>, styleRules |-> <<>>,
                citations |-> {}]

\* buildGraphContext in a mode other than OFF, every query answered by the
\* store: the contexts it may return for params, whose entity names are
\* entityNames (the defaults of getGraphDBConfig are 50 nodes and 100 edges)
graphContexts(G, params, entityNames) ==
  LET maxNodes == Nullish(params.maxNodes, 50)
      maxEdges == Nullish(params.maxEdges, 100)
      slice(list, n) == SubSeq(list, 1, IF Len(list) < n THEN Len(list) ELSE n)
      context(entities, traversed, styleRules) ==
        LET neighborEntities == [k \in DOMAIN traversed |-> traversed[k].neighbor]
            relations == [k \in DOMAIN traversed |-> traversed[k].relation]
            allEntities == deduplicateEntities(entities \o neighborEntities)
        IN [isNull |-> FALSE,
            entities |-> slice(allEntities, maxNodes),
            relations |-> slice(relations, maxEdges),
            styleRules |-> styleRules,
            citations |->
              gatherCitations(G,
                { entities[k].id : k \in DOMAIN entities }
                  \cup { neighborEntities[k].id : k \in DOMAIN neighborEntities },
                { styleRules[k].id : k \in DOMAIN styleRules })]
  IN IF entityNames = <<>>
     THEN { IF styleRules = <<>> THEN NullContext
            ELSE [isNull |-> FALSE, entities |-> <<>>, relations |-> <<>>,
                  styleRules |-> styleRules, citations |-> {}] :
              styleRules \in retrieveActiveStyleRules(G, params.userId) }
     ELSE { context(x[1], x[2], x[3]) :
              x \in resolveConceptNodes(G, entityNames, maxNodes)
                    \X traverseNeighborhood(G, entityNames, maxEdges)
                    \X retrieveActiveStyleRules(G, params.userId) }

\* The invocations of buildGraphContext: params, with the entity names that
\* extractEntityNamesFromText finds in them
BuildGraphContextParams ==
  { [userId |-> "u1", sessionId |-> "s1", promptText |-> "tell me about Project Atlas",
     artifactContent |-> "", maxNodes |-> <<>>, maxEdges |-> <<>>],
    [userId |-> "u1", sessionId |-> "s1", promptText |-> "make it shorter",
     artifactContent |-> "", maxNodes |-> <<>>, maxEdges |-> <<>>],
    [userId |-> "u1", sessionId |-> "s1", promptText |-> "Project Atlas",
     artifactContent |-> "notes on Mars", maxNodes |-> <<1>>, maxEdges |-> <<1>>],
    [userId |-> "u2", sessionId |-> "s2", promptText |-> "make it shorter",
     artifactContent |-> "", maxNodes |-> <<>>, maxEdges |-> <<>>] }

BuildGraphContextInvocations ==
  { [params |-> p,
     entityNames |-> extractEntityNamesFromText(p.promptText, p.artifactContent)] :
      p \in BuildGraphContextParams }

\* buildGraphContext(params) is invoked and returns.
\* What the statements of the read path leave of the graph G: each of the
\* four is MATCH ... (OPTIONAL MATCH ...) RETURN ... LIMIT, without a clause
\* that creates or sets anything.
GraphAfterMergingRead(G, entityNames) ==
  [G EXCEPT !.nodes = @ \cup { Node("Concept", entityNames[i]) : i \in DOMAIN entityNames }]

GraphAfterRead(G, entityNames) == G

BuildGraphContextRun(inv) ==
  /\ AllIdle
  /\ \E context \in graphContexts(Graph, inv.params, inv.entityNames) :
     \E b \in {buildGraphContext(ClientState(0, "run"), inv.entityNames # <<>>,
                                 [entities |-> IF context.entities = <<>> THEN 0 ELSE 1,
                                  relations |-> IF context.relations = <<>> THEN 0 ELSE 1,
                                  styleRules |-> IF context.styleRules = <<>> THEN 0 ELSE 1,
                                  citations |-> IF context.citations = {} THEN 0 ELSE 1])} :
       /\ _driver2' = b.st.driver2
       /\ _config' = b.st.config
       /\ _schemaInitialized' = b.st.schemaInitialized
       /\ storeCalls' = b.st.calls
       /\ driversCreated' = b.st.drivers
       /\ last' = [op |-> "buildGraphContext", res |-> b.res, down |-> ~storeUp,
                   failed |-> b.st.failed, params |-> inv.params, retry |-> FALSE,
                   before |-> IdleCall.before,
                   entityNames |-> inv.entityNames,
                   context |-> IF b.res.kind = "ctx" THEN context ELSE NullContext]
       /\ \E G \in {IF b.res.kind = "ctx" THEN GraphAfterRead(Graph, inv.entityNames)
                     ELSE Graph} :
            nodes' = G.nodes /\ rules' = G.rules /\ edges' = G.edges
  /\ UNCHANGED <<GRAPHRAG_MODE, storeUp, _driver, _driverInitAttempted, _initialized,
                 GRAPHRAG_CONTRADICTION_STRATEGY, call, writes, faults, detected>>

ReadSessionStep(w) ==
  \/ StartExtractAndWrite(w, ReadSessionConversations)
  \/ StartWriteExtraction(w, ReadSessionExtractions)
  \/ WriteCalls(w)

\* SpecRead: write invocations and read invocations, one after the other,
\* against a healthy store.
InitRead ==
  /\ FreshProcess
  /\ faults = 0
  /\ GRAPHRAG_CONTRADICTION_STRATEGY \in {"", "user-confirmation"}

NextRead ==
  \/ \E w \in SequentialWriters : ReadSessionStep(w)
  \/ \E inv \in BuildGraphContextInvocations : BuildGraphContextRun(inv)

SpecRead == InitRead /\ [][NextRead]_vars

\* The last invocation was a read that returned a context.
ReadReturnedContext == last.op = "buildGraphContext" /\ last.res.kind = "ctx"

\* C14: in the context that a read returns, no two entities have the same
\* id, no two relations have the same source, type and target, and there are
\* at most maxNodes entities and at most maxEdges relations.
C14_ReadListsDistinctAndBounded ==
  ReadReturnedContext =>
    LET entities == last.context.entities
        relations == last.context.relations
    IN /\ \A i, j \in DOMAIN entities : i # j => entities[i].id # entities[j].id
       /\ \A i, j \in DOMAIN relations :
            i # j => <<relations[i].source, relations[i].type, relations[i].target>>
                       # <<relations[j].source, relations[j].type, relations[j].target>>
       /\ Len(entities) <= Nullish(last.params.maxNodes, 50)
       /\ Len(relations) <= Nullish(last.params.maxEdges, 100)

\* C15: under most-recent-wins, once the turn "I always prefer concise
\* responses." and after it the turn "I prefer detailed explanations." have
\* been written for the same user and scope (the rules r1 and r2 that
\* extractFromMessages makes of them being the rules of the store), r1 has
\* active false and temporalMarker past, r2 has active true, and the
\* CONTRADICTS edges are exactly one, from r2 to r1.
C15_DetailedSupersedesConcise ==
  \A r1, r2 \in DOMAIN rules :
    (/\ AllIdle
     /\ last.op = "extractAndWriteToGraph"
     /\ ~last.failed
     /\ contradictionStrategy(GRAPHRAG_CONTRADICTION_STRATEGY) = "most-recent-wins"
     /\ DOMAIN rules = {r1, r2}
     /\ rules[r1].rule = "always prefer concise responses."
     /\ rules[r2].rule = "I prefer detailed explanations."
     /\ rules[r1].scope = rules[r2].scope
     /\ rules[r1].since < rules[r2].since)
    => /\ ~rules[r1].active
       /\ rules[r1].temporalMarker = "past"
       /\ rules[r2].active
       /\ { <<e.from, e.to>> : e \in { f \in edges : f.type = "CONTRADICTS" } }
            = { <<Node("StyleRule", r2), Node("StyleRule", r1)>> }
       /\ Cardinality({ f \in edges : f.type = "CONTRADICTS" }) = 1

\* The state is the one in which the last read returned.
ReadJustReturned == AllIdle /\ last.op = "buildGraphContext"

\* The rules of the store that userId prefers and that have active true and
\* temporalMarker current
ApplicableRules(userId) ==
  { r \in DOMAIN rules :
      /\ rules[r].active
      /\ rules[r].temporalMarker = "current"
      /\ \E e \in edges : /\ e.type = "PREFERS"
                         /\ e.from = Node("User", userId)
                         /\ e.to = Node("StyleRule", r) }

\* C16: in a mode other than OFF and with a healthy store, a read that finds
\* no entity name in its prompt and artifact text returns null when the user
\* has no applicable style rule, and otherwise a context with exactly the
\* user's applicable rules and no entity, relation or citation.
C16_NoEntityNameStillReadsRules ==
  (ReadJustReturned /\ getGraphRAGMode2(GRAPHRAG_MODE) # "OFF" /\ last.entityNames = <<>>) =>
    IF ApplicableRules(last.params.userId) = {}
    THEN last.res.kind = "null"
    ELSE /\ last.res.kind = "ctx"
         /\ { last.context.styleRules[k].id : k \in DOMAIN last.context.styleRules }
              = ApplicableRules(last.params.userId)
         /\ Len(last.context.styleRules) = Cardinality(ApplicableRules(last.params.userId))
         /\ last.context.entities = <<>>
         /\ last.context.relations = <<>>
         /\ last.context.citations = {}

\* A read without entity names has returned the one rule of its user while
\* the store holds a rule of another user as well.
C16_Witness ==
  /\ ReadJustReturned
  /\ last.entityNames = <<>>
  /\ last.res.kind = "ctx"
  /\ Len(last.context.styleRules) = 1
  /\ Cardinality(DOMAIN rules) >= 2
  /\ \E r \in DOMAIN rules : r \notin ApplicableRules(last.params.userId) /\ rules[r].active

\* The concepts that a RELATED_TO relationship joins to the concept name
RelatedToNeighbours(name) ==
  { n \in ConceptNodes \ {Node("Concept", name)} :
      \E e \in edges : /\ e.type = "RELATED_TO"
                       /\ {e.from, e.to} = {n, Node("Concept", name)} }

\* C17: when the prompt mentions "Project Atlas" and the store holds the
\* concept project atlas with exactly two RELATED_TO neighbours, the read
\* returns exactly three entities, the concept and its two neighbours, and
\* exactly two relations, one for each neighbour.
C17_ProjectAtlasWithTwoNeighbours ==
  (/\ ReadJustReturned
   /\ last.res.kind = "ctx"
   /\ last.entityNames = <<"project atlas">>
   /\ last.params.maxNodes = <<>>
   /\ last.params.maxEdges = <<>>
   /\ Node("Concept", "project atlas") \in nodes
   /\ Cardinality(RelatedToNeighbours("project atlas")) = 2)
  => LET entities == last.context.entities
         relations == last.context.relations
     IN /\ Len(entities) = 3
        /\ { entities[k].id : k \in DOMAIN entities }
             = {Node("Concept", "project atlas")} \cup RelatedToNeighbours("project atlas")
        /\ Len(relations) = 2
        /\ { relations[k].target : k \in DOMAIN relations }
             = RelatedToNeighbours("project atlas")

LineBreak == "\n"

\* Array.prototype.join
RECURSIVE join(_, _)
join(parts, separator) ==
  IF parts = <<>> THEN ""
  ELSE IF Len(parts) = 1 THEN parts[1]
  ELSE parts[1] \o separator \o join(Tail(parts), separator)

\* The template literal's rendering of a confidence, a number of tenths
NumberToString(tenths) ==
  IF tenths % 10 = 0 THEN ToString(tenths \div 10)
  ELSE ToString(tenths \div 10) \o "." \o ToString(tenths % 10)

formatGraphContextForPrompt(ctx) ==
  IF ctx.isNull THEN ""
  ELSE LET ruleLine(rule) ==
             join(<<"- [" \o rule.scope \o "] " \o rule.rule>>
                  \o (IF rule.confidence # <<>>
                      THEN <<"(confidence: " \o NumberToString(rule.confidence[1]) \o ")">>
                      ELSE <<>>)
                  \o (IF Len(rule.contradicts) > 0
                      THEN <<"(contradicts " \o ToString(Len(rule.contradicts))
                               \o " other rule(s))">>
                      ELSE <<>>), " ")
           entityLine(entity) ==
             "- " \o entity.label \o ": " \o (IF entity.name # "" THEN entity.name ELSE entity.id)
           relationLine(rel) ==
             "- (" \o rel.source \o ")-[:" \o rel.type \o "]->(" \o rel.target \o ")"
           sections ==
             (IF Len(ctx.styleRules) > 0
              THEN <<"<graph-style-rules>">>
                   \o [k \in DOMAIN ctx.styleRules |-> ruleLine(ctx.styleRules[k])]
                   \o <<"</graph-style-rules>">>
              ELSE <<>>)
             \o (IF Len(ctx.entities) > 0
                 THEN <<"<graph-entities>">>
                      \o [k \in DOMAIN ctx.entities |-> entityLine(ctx.entities[k])]
                      \o <<"</graph-entities>">>
                 ELSE <<>>)
             \o (IF Len(ctx.relations) > 0
                 THEN <<"<graph-relations>">>
                      \o [k \in DOMAIN ctx.relations |-> relationLine(ctx.relations[k])]
                      \o <<"</graph-relations>">>
                 ELSE <<>>)
       IN join(sections, LineBreak)

\* The contexts given to the formatter: null, and the contexts with up to
\* MaxListLen style rules, entities and relations.  A rule text is what
\* extractFromMessages matched in a user turn, whose \s+ also matches a line
\* break; an entity without a name is an Artifact.
MaxListLen == 2

ListsOf(S) == UNION { [1..n -> S] : n \in 0..MaxListLen }

FormatContexts ==
  {NullContext} \cup
  { [isNull |-> FALSE, styleRules |-> sr, entities |-> en, relations |-> re, citations |-> {}] :
      sr \in ListsOf({ [scope |-> "global", rule |-> "I prefer" \o LineBreak \o "short answers.",
                        confidence |-> <<5>>, contradicts |-> <<>>],
                       [scope |-> "session", rule |-> "use formal tone",
                        confidence |-> <<>>, contradicts |-> <<"uuid-1-1">>] }),
      en \in ListsOf({ [id |-> "4:0", label |-> "Concept", name |-> "project atlas"],
                       [id |-> "4:1", label |-> "Artifact", name |-> ""] }),
      re \in ListsOf({ [source |-> "4:0", target |-> "4:2", type |-> "RELATED_TO"],
                       [source |-> "4:0", target |-> "4:1", type |-> "MENTIONS"] }) }

\* formatGraphContextForPrompt(ctx) is invoked, once in a behaviour, and
\* returns.
FormatGraphContextForPromptRun ==
  /\ last = NoInvocation
  /\ \E ctx \in FormatContexts :
       last' = [op |-> "formatGraphContextForPrompt", res |-> Res("string"),
                down |-> ~storeUp, failed |-> FALSE, context |-> ctx,
                prompt |-> formatGraphContextForPrompt(ctx)]
  /\ UNCHANGED <<client, GRAPHRAG_CONTRADICTION_STRATEGY, nodes, rules, edges, call, writes,
                 faults, detected>>

InitFormat == FreshProcess /\ faults = 0

NextFormat == FormatGraphContextForPromptRun

SpecFormat == InitFormat /\ [][NextFormat]_vars

\* String.prototype.split at the line breaks
RECURSIVE Lines(_)
Lines(s) ==
  IF \E i \in 1..Len(s) : Char(s, i) = LineBreak
  THEN Await(Least({ i \in 1..Len(s) : Char(s, i) = LineBreak }), LAMBDA i :
         <<SubSeq(s, 1, i - 1)>> \o Lines(SubSeq(s, i + 1, Len(s))))
  ELSE <<s>>

\* The block of a list: nothing for an empty list, else the opening tag, one
\* line for each element, the closing tag
BlockShape(name, list) ==
  IF list = <<>> THEN <<>>
  ELSE <<"<" \o name \o ">">> \o [k \in DOMAIN list |-> "-"] \o <<"</" \o name \o ">">>

\* C19: formatGraphContextForPrompt returns the empty string exactly for
\* null and for a context whose style rules, entities and relations are all
\* empty; for any other context its lines are the blocks of the non-empty
\* lists in the order style rules, entities, relations, each block being the
\* opening tag, one line for each element of the list, and the closing tag.
C19_FormatBlocks ==
  last.op = "formatGraphContextForPrompt" =>
    LET ctx == last.context
        empty == ctx.isNull \/ (ctx.styleRules = <<>> /\ ctx.entities = <<>> /\ ctx.relations = <<>>)
        lines == Lines(last.prompt)
        tags == { "<graph-style-rules>", "</graph-style-rules>", "<graph-entities>",
                  "</graph-entities>", "<graph-relations>", "</graph-relations>" }
    IN /\ (last.prompt = "") <=> empty
       /\ ~empty =>
            [k \in DOMAIN lines |-> IF lines[k] \in tags THEN lines[k] ELSE "-"]
              = BlockShape("graph-style-rules", ctx.styleRules)
                \o BlockShape("graph-entities", ctx.entities)
                \o BlockShape("graph-relations", ctx.relations)

\* ------------------------------------------------------------------------
\* getDriver and the schema initializers step by step (SpecDrivers,
\* SpecSchema): the callers of Writers invoke getDriver, runQuery,
\* runWriteQuery and initGraphRAGSchema of either client module, and a call
\* suspended at an await lets the other caller run.  call[w].gen is the
\* module (1 graphdb.ts, 2 graphdb.js); call[w].created[g] and
\* call[w].verified[g] count the drivers that the calls of w have created in
\* module g and the verifyConnectivity calls they have made; call[w].ran[g]
\* lists the schema statements of module g that the calls of w have executed
\* at the store, and call[w].stmt is the statement its loop is at.
\* ------------------------------------------------------------------------

DriverOps == {"getDriver", "runQuery", "runWriteQuery"}

\* The activation record once its call has returned or raised
Returned(c) == [c EXCEPT !.pc = "idle", !.op = "none", !.gen = 0, !.stmt = 0]

\* The call of w goes on to pc; "idle" is its return.
Goto(w, pc) ==
  call' = [call EXCEPT ![w] = IF pc = "idle" THEN Returned(@) ELSE [@ EXCEPT !.pc = pc]]

\* The activation record c after getDriver has handed it the driver
\* (driver), or null or a raise (~driver)
AfterGetDriver(c, driver) ==
  IF ~driver \/ c.op = "getDriver" THEN Returned(c)
  ELSE IF c.op = "initGraphRAGSchema" THEN [c EXCEPT !.pc = "statement", !.stmt = 1]
  ELSE [c EXCEPT !.pc = "session"]

\* getDriver of graphdb.ts up to its first await, for a call of op:
\* _driverInitAttempted is set before the import is awaited, and a call that
\* finds it set is handed _driver as it is.  initGraphRAGSchema records the
\* schema as initialized when it is handed null.
EnterGetDriver(w, op) ==
  /\ _driverInitAttempted' = TRUE
  /\ IF ~_driverInitAttempted
     THEN /\ call' = [call EXCEPT ![w] = [@ EXCEPT !.op = op, !.gen = 1, !.pc = "import"]]
          /\ UNCHANGED _initialized
     ELSE /\ call' = [call EXCEPT ![w] =
                        AfterGetDriver([@ EXCEPT !.op = op, !.gen = 1], _driver)]
          /\ _initialized' = (_initialized \/ (op = "initGraphRAGSchema" /\ ~_driver))

\* getDriver of graphdb.js up to its first await: only _driver is tested.
EnterGetDriver2(w, op) ==
  /\ call' = [call EXCEPT ![w] =
       IF ~_driver2 THEN [@ EXCEPT !.op = op, !.gen = 2, !.pc = "import"]
       ELSE AfterGetDriver([@ EXCEPT !.op = op, !.gen = 2], TRUE)]
  /\ UNCHANGED <<_driverInitAttempted, _initialized>>

\* A call of getDriver, runQuery or runWriteQuery enters getDriver.
GetDriverEnter(w) ==
  /\ call[w].pc = "idle"
  /\ \E op \in DriverOps, g \in {1, 2} :
       /\ g = 2 => op # "runWriteQuery"
       /\ IF g = 1 THEN EnterGetDriver(w, op) ELSE EnterGetDriver2(w, op)
  /\ UNCHANGED <<GRAPHRAG_MODE, storeUp, _driver, _driver2, _config,
                 _schemaInitialized, storeCalls, driversCreated, last,
                 GRAPHRAG_CONTRADICTION_STRATEGY, nodes, rules, edges, writes, faults,
                 detected>>

\* A call of initGraphRAGSchema that finds _initialized unset, in a mode
\* other than OFF, awaits getDriver.
InitGraphRAGSchemaEnter(w) ==
  /\ call[w].pc = "idle"
  /\ ~_initialized
  /\ getGraphRAGMode(GRAPHRAG_MODE) # "OFF"
  /\ EnterGetDriver(w, "initGraphRAGSchema")
  /\ UNCHANGED <<GRAPHRAG_MODE, storeUp, _driver, _driver2, _config,
                 _schemaInitialized, storeCalls, driversCreated, last,
                 GRAPHRAG_CONTRADICTION_STRATEGY, nodes, rules, edges, writes, faults,
                 detected>>

\* The import is there: _driver = neo4j.default.driver(...), and the call
\* awaits _driver.verifyConnectivity().
GetDriverCreate(w) ==
  /\ call[w].pc = "import"
  /\ \E g \in {call[w].gen} :
       /\ _driver' = IF g = 1 THEN TRUE ELSE _driver
       /\ _driver2' = IF g = 2 THEN TRUE ELSE _driver2
       /\ driversCreated' = Inc(driversCreated)
       /\ call' = [call EXCEPT ![w].pc = "verify", ![w].created[g] = @ + 1]
  /\ UNCHANGED <<GRAPHRAG_MODE, storeUp, _driverInitAttempted, _initialized, _config,
                 _schemaInitialized, storeCalls, last, GRAPHRAG_CONTRADICTION_STRATEGY,
                 nodes, rules, edges, writes, faults, detected>>

\* verifyConnectivity settles.  Module 1 returns _driver, or sets it to null
\* in its catch block and raises (REQUIRED) or returns null; module 2 sets
\* _config and goes on to ensureGraphSchema when the schema is not
\* initialized, and its catch block leaves _driver.
GetDriverVerified(w) ==
  /\ call[w].pc = "verify"
  /\ storeCalls' = Inc(storeCalls)
  /\ \E g \in {call[w].gen} : \E c \in {[call[w] EXCEPT !.verified[g] = @ + 1]} :
       IF g = 1
       THEN /\ _driver' = (storeUp /\ _driver)
            /\ call' = [call EXCEPT ![w] = AfterGetDriver(c, storeUp /\ _driver)]
            /\ _initialized' =
                 (_initialized \/ (/\ c.op = "initGraphRAGSchema"
                                   /\ ~(storeUp /\ _driver)
                                   /\ (storeUp \/ getGraphRAGMode(GRAPHRAG_MODE) # "REQUIRED")))
            /\ UNCHANGED <<_config, _driver2>>
       ELSE /\ _config' = IF storeUp THEN getGraphRAGMode2(GRAPHRAG_MODE) ELSE _config
            /\ call' = [call EXCEPT ![w] =
                 IF storeUp /\ ~_schemaInitialized
                 THEN [c EXCEPT !.pc = "schema", !.stmt = 1]
                 ELSE AfterGetDriver(c, storeUp)]
            /\ UNCHANGED <<_driver, _driver2, _initialized>>
  /\ UNCHANGED <<GRAPHRAG_MODE, storeUp, _driverInitAttempted,
                 _schemaInitialized, driversCreated, last, GRAPHRAG_CONTRADICTION_STRATEGY,
                 nodes, rules, edges, writes, faults, detected>>

\* The activation record c after the statement its loop is at, of n: the
\* next statement, or done(c) after the last one.
NextStatement(c, n, done(_)) ==
  IF c.stmt = n THEN done(c) ELSE [c EXCEPT !.stmt = @ + 1]

\* One turn of the loop of initGraphRAGSchema: runWriteQuery(statement), whose
\* getDriver hands it _driver as it is.  A statement that fails raises in
\* REQUIRED mode and is passed over in OPTIONAL mode; after the last one
\* _initialized is set.
SchemaStatement(w) ==
  /\ call[w].pc = "statement"
  /\ \E c \in {call[w]} :
       IF _driver /\ ~storeUp /\ getGraphRAGMode(GRAPHRAG_MODE) = "REQUIRED"
       THEN /\ storeCalls' = Inc(storeCalls)
            /\ call' = [call EXCEPT ![w] = Returned(c)]
            /\ UNCHANGED _initialized
       ELSE /\ storeCalls' = IF _driver THEN Inc(storeCalls) ELSE storeCalls
            /\ call' = [call EXCEPT ![w] =
                 NextStatement(IF _driver /\ storeUp
                               THEN [c EXCEPT !.ran[1] = Append(@, c.stmt)] ELSE c,
                               SchemaStatements, Returned)]
            /\ _initialized' = (_initialized \/ c.stmt = SchemaStatements)
  /\ UNCHANGED <<GRAPHRAG_MODE, storeUp, _driver, _driverInitAttempted, _driver2,
                 _config, _schemaInitialized, driversCreated, last,
                 GRAPHRAG_CONTRADICTION_STRATEGY, nodes, rules, edges, writes, faults,
                 detected>>

\* The continuation of getDriver of graphdb.js after ensureGraphSchema
SchemaEnsured(c) == AfterGetDriver(c, TRUE)

\* One turn of the loop of ensureGraphSchema, called from getDriver of
\* graphdb.js: runQuery(q), which finds _driver set.  A query that fails
\* raises when _config holds REQUIRED, and getDriver catches it; after the
\* last one getDriver sets _schemaInitialized.
EnsureGraphSchemaStatement(w) ==
  /\ call[w].pc = "schema"
  /\ storeCalls' = Inc(storeCalls)
  /\ \E c \in {call[w]} :
       IF ~storeUp /\ _config = "REQUIRED"
       THEN /\ call' = [call EXCEPT ![w] = Returned(c)]
            /\ UNCHANGED _schemaInitialized
       ELSE /\ call' = [call EXCEPT ![w] =
                 NextStatement(IF storeUp THEN [c EXCEPT !.ran[2] = Append(@, c.stmt)]
                               ELSE c,
                               GraphSchemaQueries, SchemaEnsured)]
            /\ _schemaInitialized' = (_schemaInitialized \/ c.stmt = GraphSchemaQueries)
  /\ UNCHANGED <<GRAPHRAG_MODE, storeUp, _driver, _driverInitAttempted, _initialized,
                 _driver2, _config, driversCreated, last, GRAPHRAG_CONTRADICTION_STRATEGY,
                 nodes, rules, edges, writes, faults, detected>>

\* runQuery and runWriteQuery once they hold the driver: the session
SessionDone(w) ==
  /\ call[w].pc = "session"
  /\ storeCalls' = Inc(storeCalls)
  /\ Goto(w, "idle")
  /\ UNCHANGED <<GRAPHRAG_MODE, storeUp, _driver, _driverInitAttempted, _initialized,
                 _driver2, _config, _schemaInitialized, driversCreated, last,
                 GRAPHRAG_CONTRADICTION_STRATEGY, nodes, rules, edges, writes, faults,
                 detected>>

\* SpecDrivers: a process in a mode other than OFF, from its start up to
\* closeDriver, against a store that suffers at most MaxFaults outages.
InitDrivers == FreshProcess /\ faults = MaxFaults /\ GRAPHRAG_MODE # "OFF"

DriverStep(w) ==
  \/ GetDriverEnter(w)
  \/ GetDriverCreate(w)
  \/ GetDriverVerified(w)
  \/ EnsureGraphSchemaStatement(w)
  \/ SessionDone(w)

NextDrivers ==
  \/ \E w \in Writers : DriverStep(w)
  \/ Outage

SpecDrivers == InitDrivers /\ [][NextDrivers]_vars

\* SpecSchema: the same process against a store that stays reachable, with
\* initGraphRAGSchema among the calls.
NextSchema ==
  \E w \in Writers :
    \/ DriverStep(w)
    \/ InitGraphRAGSchemaEnter(w)
    \/ SchemaStatement(w)

SpecSchema == InitDrivers /\ [][NextSchema]_vars

\* The drivers created in module g, and the verifyConnectivity calls made
DriversCreatedIn(g) == call["w1"].created[g] + call["w2"].created[g]
VerificationsIn(g) == call["w1"].verified[g] + call["w2"].verified[g]

\* C20: in a mode other than OFF, between the start of the process and
\* closeDriver, each client module creates at most one driver and verifies
\* reachability at most once, whatever calls of getDriver, runQuery and
\* runWriteQuery are made and however they interleave.
C20_OneDriverVerifiedOnce ==
  \A g \in {1, 2} : DriversCreatedIn(g) <= 1 /\ VerificationsIn(g) <= 1

\* The same for graphdb.ts alone, whose getDriver sets _driverInitAttempted
\* before its first await
C20_FirstModuleOneDriver == DriversCreatedIn(1) <= 1 /\ VerificationsIn(1) <= 1

\* The schema statements of module g in list order
StatementList(g) == [i \in 1..(IF g = 1 THEN SchemaStatements ELSE GraphSchemaQueries) |-> i]

IsPrefix(s, t) == Len(s) <= Len(t) /\ s = SubSeq(t, 1, Len(s))

\* The store has seen the statements of module g at most once each, in list
\* order: one caller has executed a prefix of the list and no other caller
\* any statement.
ExecutedAtMostOnce(g) ==
  \E w \in Writers :
    /\ IsPrefix(call[w].ran[g], StatementList(g))
    /\ \A v \in Writers \ {w} : call[v].ran[g] = <<>>

\* The store has seen the whole list of module g
ExecutedWhole(g) == \E w \in Writers : call[w].ran[g] = StatementList(g)

\* C21: in a mode other than OFF with a reachable store, whatever calls of
\* the schema initializers are made, one after another or concurrently, the
\* list of schema statements is executed exactly once, in list order: never
\* a statement twice, and the whole list once an initializer has recorded
\* the schema as initialized and every call has returned.
C21_SchemaExecutedOnce ==
  /\ \A g \in {1, 2} : ExecutedAtMostOnce(g)
  /\ (\A w \in Writers : call[w].pc = "idle") =>
       /\ _initialized => ExecutedWhole(1)
       /\ _schemaInitialized => ExecutedWhole(2)

\* The parts of C21, and initGraphRAGSchema called from one caller only
C21_NoStatementTwice == \A g \in {1, 2} : ExecutedAtMostOnce(g)
C21_InitializedMeansExecuted ==
  (\A w \in Writers : call[w].pc = "idle") =>
    /\ _initialized => ExecutedWhole(1)
    /\ _schemaInitialized => ExecutedWhole(2)

\* ------------------------------------------------------------------------
\* Failure of the schema initializers (SpecClient)
\* ------------------------------------------------------------------------

\* The calls of graphdb.js that hand their caller the driver or rows
ProceededWithDriver2 ==
  last.op \in {"getDriver2", "runQuery2"} /\ last.res.kind \in {"driver", "rows"}

\* A query of ensureGraphSchema has failed: getDriver of graphdb.js has set
\* _driver and, after verifyConnectivity, _config, and not _schemaInitialized.
SchemaFailed2 == _driver2 /\ _config # "none" /\ ~_schemaInitialized

\* The outcome of an initializer whose schema statement has failed
C22_InitializerOutcome ==
  /\ (last.op = "initGraphRAGSchema" /\ last.failed) =>
       IF Mode = "REQUIRED" THEN last.res.kind = "raise" /\ ~_initialized
       ELSE last.res.kind # "raise"
  /\ (last.op = "getDriver2" /\ last.failed /\ SchemaFailed2) =>
       IF Mode = "REQUIRED" THEN last.res.kind = "raise" ELSE last.res.kind # "raise"

\* C22: when a schema statement fails in REQUIRED mode, the initializer
\* (initGraphRAGSchema, or getDriver of graphdb.js, which runs
\* ensureGraphSchema) raises and the schema is not recorded as initialized,
\* and no later call of graphdb.js hands out the driver or rows while the
\* schema is not initialized; in OPTIONAL mode the initializer does not raise.
C22_SchemaFailure ==
  /\ C22_InitializerOutcome
  /\ (Mode = "REQUIRED" /\ ProceededWithDriver2) => ~SchemaFailed2

\* ------------------------------------------------------------------------
\* What reads and writes do to the graph data (SpecRead)
\* ------------------------------------------------------------------------

\* A step of contradiction resolution is about to run.
InResolutionStep == \E w \in Writers : call[w].pc \in {"markPending", "deactivateOld"}

\* The step leaves every StyleRule in the graph, and changes the active flag
\* of none but from true to false in a resolution step.
ActiveOnlyFalls ==
  \A r \in DOMAIN rules :
    /\ r \in DOMAIN rules'
    /\ rules'[r].active # rules[r].active =>
         rules[r].active /\ ~rules'[r].active /\ InResolutionStep

\* The relationship that e is: its type and its ends (SET r.type,
\* r.extractionId changes the properties of a RELATED_TO relationship, not
\* the relationship).
Relationship(e) == <<e.type, e.from, e.to>>

\* The step leaves every relationship in the graph.
EdgesKept ==
  /\ \A e \in edges : \E f \in edges' : Relationship(f) = Relationship(e)
  /\ Cardinality(edges') >= Cardinality(edges)

\* C23: across the reads and writes a StyleRule's active flag changes only
\* from true to false and only in a contradiction-resolution step, and no
\* node and no edge is ever deleted.
C23_ActiveOnlyFallsNothingDeleted ==
  [][ActiveOnlyFalls /\ nodes \subseteq nodes' /\ EdgesKept]_vars

\* A rule has been deactivated, and a read has come after it.
C23_Witness ==
  /\ ReadJustReturned
  /\ \E r \in DOMAIN rules : ~rules[r].active /\ rules[r].temporalMarker = "past"

\* The step is a read invocation: no write invocation is under way or
\* starts, and the invocation that ends is one of the read path.
ReadStep == AllIdle /\ call' = call /\ last'.op \in ReadOps

ClientStateUnder(env) == [ClientState(0, "run") EXCEPT !.env = env]

\* The call of op ends in client state r.st with result r.ret, having read env.
CommitUnder(op, env, r) ==
  /\ _driver' = r.st.driver
  /\ _driverInitAttempted' = r.st.attempted
  /\ _initialized' = r.st.initialized
  /\ _driver2' = r.st.driver2
  /\ _config' = r.st.config
  /\ _schemaInitialized' = r.st.schemaInitialized
  /\ storeCalls' = r.st.calls
  /\ driversCreated' = r.st.drivers
  /\ last' = [op |-> op, res |-> Res(r.ret), down |-> ~storeUp, failed |-> r.st.failed,
              env |-> env]
  /\ UNCHANGED <<GRAPHRAG_MODE, storeUp, writeVars>>

\* The calls of the Graph Client that read process.env.GRAPHRAG_MODE
EnvOps == {"getDriver", "runQuery", "getDriver2", "runQuery2"}

\* What the call of op makes of the module state when process.env holds env
CallUnder(op, env) ==
  CASE op = "getDriver" -> getDriver(ClientStateUnder(env))
    [] op = "runQuery" -> runQuery(ClientStateUnder(env))
    [] op = "getDriver2" -> getDriver2(ClientStateUnder(env))
    [] op = "runQuery2" -> runQuery2(ClientStateUnder(env))

GetDriverUnderEnv ==
  \E env \in EnvValues : CommitUnder("getDriver", env, CallUnder("getDriver", env))

RunQueryUnderEnv ==
  \E env \in EnvValues : CommitUnder("runQuery", env, CallUnder("runQuery", env))

GetDriver2UnderEnv ==
  \E env \in EnvValues : CommitUnder("getDriver2", env, CallUnder("getDriver2", env))

RunQuery2UnderEnv ==
  \E env \in EnvValues : CommitUnder("runQuery2", env, CallUnder("runQuery2", env))

NextEnv ==
  \/ GetDriverUnderEnv
  \/ RunQueryUnderEnv
  \/ GetDriver2UnderEnv
  \/ RunQuery2UnderEnv
  \/ StoreChange

SpecEnv == InitClient /\ [][NextEnv]_vars

\* C25: the mode is read once at startup: a call made after GRAPHRAG_MODE
\* has changed returns what it would return, from the same module state and
\* store, under the value the process started with.
C25_ModeReadOnceAtStartup ==
  [][storeUp' = storeUp =>
       last'.res = Res(CallUnder(last'.op, GRAPHRAG_MODE).ret)]_vars

\* ------------------------------------------------------------------------
\* Scope and temporal marker of rules and PREFERS edges (SpecWrite)
\* ------------------------------------------------------------------------

Scopes == {"global", "project", "session"}
TemporalMarkerValues == {"current", "past", "future", "negated"}

\* scope and temporalMarker of a PREFERS relationship, the last two of the
\* properties it is merged with
PrefersScope(e) == e.props[Len(e.props) - 1]
PrefersTemporalMarker(e) == e.props[Len(e.props)]

\* C26: every StyleRule node and every PREFERS edge carries a scope among
\* global, project, session and a temporalMarker among current, past,
\* future, negated.
C26_ScopeAndMarkerSet ==
  /\ \A r \in DOMAIN rules :
       rules[r].scope \in Scopes /\ rules[r].temporalMarker \in TemporalMarkerValues
  /\ \A e \in edges :
       e.type = "PREFERS" =>
         PrefersScope(e) \in Scopes /\ PrefersTemporalMarker(e) \in TemporalMarkerValues

\* A rule has been set to past by a resolution, its PREFERS edge is as it was
\* merged, and another rule carries a marker that the extractor derived.
C26_Witness ==
  /\ \E e \in edges :
       /\ e.type = "PREFERS"
       /\ rules[e.to[2]].temporalMarker = "past"
       /\ PrefersTemporalMarker(e) = "current"
  /\ \E r \in DOMAIN rules : rules[r].active

\* ------------------------------------------------------------------------
\* Concurrent writes (SpecWriteConcurrent): the invocations of Writers run
\* at the same time, each suspended at its awaited runQuery calls.
\* ------------------------------------------------------------------------

InitWriteConcurrent ==
  /\ FreshProcess
  /\ faults = 0
  /\ GRAPHRAG_MODE = "OPTIONAL"
  /\ GRAPHRAG_CONTRADICTION_STRATEGY \in {"", "user-confirmation"}

NextWriteConcurrent == \E w \in Writers : WriteStep(w)

SpecWriteConcurrent == InitWriteConcurrent /\ [][NextWriteConcurrent]_vars

\* Invocation w is about to insert its rule, and rule r, active and preferred
\* by the same user in the same scope, contradicts it and was not in the
\* snapshot that w compared its rule with: r was inserted after w had read
\* the active rules.
MissedBy(w, r) ==
  /\ call[w].pc = "insertRule"
  /\ r \in ActiveRulesOf(Graph, call[w].userId, Head(call[w].styleRules).scope)
  /\ isContradiction(Head(call[w].styleRules).rule, rules[r].rule,
                     Head(call[w].styleRules).temporalMarker)
  /\ \A d \in detected : ~(d.new = call[w].ruleId /\ d.old = r)

\* A CONTRADICTS edge joins the rules r1 and r2, one way or the other.
ContradictsEitherWay(E, r1, r2) ==
  \E e \in E :
    /\ e.type = "CONTRADICTS"
    /\ {e.from, e.to} = {Node("StyleRule", r1), Node("StyleRule", r2)}

\* C27: when two concurrent invocations for one user and scope insert rules
\* that contradict each other and each has read the active rules before the
\* other inserts, the second insertion leaves both rules active and no
\* CONTRADICTS edge between them.
C27_RaceLeavesBothActive ==
  [][\A w \in Writers : \A r \in DOMAIN rules :
       (MissedBy(w, r) /\ call[w].ruleId \in DOMAIN rules' \ DOMAIN rules) =>
         /\ rules'[r].active
         /\ rules'[call[w].ruleId].active
         /\ ~ContradictsEitherWay(edges', r, call[w].ruleId)]_vars

\* Both invocations have ended under most-recent-wins, and two rules of one
\* user and scope that contradict each other, in both directions, are active
\* with no CONTRADICTS edge between them.
C27_Witness ==
  /\ AllIdle
  /\ contradictionStrategy(GRAPHRAG_CONTRADICTION_STRATEGY) = "most-recent-wins"
  /\ \E u \in {"u1"} : \E r1, r2 \in ActiveRulesOf(Graph, u, "global") :
       /\ r1 # r2
       /\ ~rules[r1].strict /\ ~rules[r2].strict
       /\ isContradiction(rules[r1].rule, rules[r2].rule, rules[r1].temporalMarker)
       /\ isContradiction(rules[r2].rule, rules[r1].rule, rules[r2].temporalMarker)
       /\ ~ContradictsEitherWay(edges, r1, r2)

\* ------------------------------------------------------------------------
\* Order of the store calls of one write invocation (SpecWrite)
\* ------------------------------------------------------------------------

\* The step of the write path that the call at pc belongs to: 1 structural
\* nodes (ensureSessionArtifactNodes), 2 the Extraction node and its links,
\* 3 Concepts, 4 relations, 5 StyleRules; 0 when no call is under way.
WritePhase(pc) ==
  CASE pc \in {"mergeUser", "mergeSession", "mergeArtifact"} -> 1
    [] pc \in {"createExtraction", "linkSession", "linkArtifact"} -> 2
    [] pc \in {"upsertConcept", "linkMention"} -> 3
    [] pc = "upsertRelation" -> 4
    [] pc \in {"findExisting", "recordContradiction", "markPending", "deactivateOld",
               "insertRule"} -> 5
    [] OTHER -> 0

\* The calls of invocation w follow the order of the steps: the call issued
\* when one has completed belongs to the same step or a later one, and the
\* Extraction node comes first of the steps of writeExtractionToGraph.
InStepOrder(w) ==
  call'[w].pc # "idle" =>
    /\ WritePhase(call'[w].pc) >= WritePhase(call[w].pc)
    /\ WritePhase(call[w].pc) <= 1 => WritePhase(call'[w].pc) <= 2

ScopedParams ==
  { [userId |-> "u1", sessionId |-> "s1", artifactId |-> "",
     messages |-> << [role |-> "user", content |-> "use casual tone about Atlas"] >>],
    [userId |-> "u2", sessionId |-> "s2", artifactId |-> "a2",
     messages |-> << [role |-> "user", content |-> "use casual tone about Atlas"] >>] }

ScopedConversations ==
  { [params |-> p, extraction |-> extractFromMessages(p.messages)] : p \in ScopedParams }

ScopedExtractions ==
  { [params |-> [userId |-> "u1", sessionId |-> "s1", artifactId |-> "a1", messages |-> <<>>],
     extraction |->
       [entities   |-> <<"atlas">>,
        relations  |-> << [source |-> "atlas", target |-> "mars", type |-> "orbits"] >>,
        styleRules |-> << [rule |-> "use casual tone about Atlas", scope |-> "session",
                           temporalMarker |-> "current", strict |-> FALSE],
                          [rule |-> "use formal tone", scope |-> "global",
                           temporalMarker |-> "current", strict |-> TRUE] >>]] }

ScopedWriteStep(w) ==
  \/ StartExtractAndWrite(w, ScopedConversations)
  \/ StartWriteExtraction(w, ScopedExtractions)
  \/ WriteCalls(w)

NextWriteScopes == \E w \in Writers : ScopedWriteStep(w)

SpecWriteScopes == InitWriteConcurrent /\ [][NextWriteScopes]_vars

RuleCalls == {"findExisting", "recordContradiction", "markPending", "deactivateOld",
              "insertRule"}

\* The rules that the call of invocation w under way may compare its new
\* rule with: the active rules of its user in the scope of the new rule.
Comparable(w) ==
  IF call[w].pc \in RuleCalls
  THEN ActiveRulesOf(Graph, call[w].userId, Head(call[w].styleRules).scope)
  ELSE {}

\* The query for the existing rules runs while the new rule is not in the
\* store, and the records it leaves to the loop are rules of Comparable(w).
DetectionBeforeInsertion(w) ==
  call[w].pc = "findExisting" =>
    /\ ~HasRule(Graph, call[w].ruleId)
    /\ \A i \in DOMAIN call'[w].records : call'[w].records[i].ruleId \in Comparable(w)

\* The call of w leaves active and temporalMarker of every rule outside
\* Comparable(w) as they are and adds no CONTRADICTS edge to such a rule.
OtherRulesUntouched(w) ==
  \A r \in DOMAIN rules \ Comparable(w) :
    /\ r \in DOMAIN rules'
    /\ rules'[r].active = rules[r].active
    /\ rules'[r].temporalMarker = rules[r].temporalMarker
    /\ \A e \in edges' \ edges : ~(e.type = "CONTRADICTS" /\ e.to = Node("StyleRule", r))

\* C29: contradiction detection compares a new rule only with the active
\* rules of the same user in the same scope, before the new rule is
\* inserted; a write never adds a CONTRADICTS edge to, nor changes active or
\* temporalMarker of, a rule of another user, another scope, or an inactive
\* rule.
C29_DetectionWithinUserAndScope ==
  [][\A w \in Writers :
       call'[w] # call[w] => DetectionBeforeInsertion(w) /\ OtherRulesUntouched(w)]_vars

\* A resolution has deactivated a rule of u1 in the global scope for a new
\* rule that contradicts it, while rules of the same text of u2 in the
\* global scope and of u1 in the session scope are active.
C29_Witness ==
  \E old \in DOMAIN rules, new \in ActiveRulesOf(Graph, "u1", "global") :
    /\ ~rules[old].active
    /\ rules[old].scope = "global"
    /\ isContradiction(rules[new].rule, rules[old].rule, rules[new].temporalMarker)
    /\ \E r \in ActiveRulesOf(Graph, "u2", "global") : rules[r].rule = rules[old].rule
    /\ \E r \in ActiveRulesOf(Graph, "u1", "session") : rules[r].rule = rules[old].rule

\* The first-generation upsertStyleRule with rule ids that callers reuse
\* (SpecUpsertStyleRule): MERGE (r:StyleRule {id: $ruleId}) ... ON MATCH SET
\* r.content, r.temporalMarker.
ReusedIdInputs ==
  { [userId |-> DefaultUserId, sessionId |-> "s1", artifactId |-> "a1",
     entities |-> <<"Atlas">>,
     triples |-> << [subject |-> "Atlas", predicate |-> "orbits", object |-> "Mars"] >>,
     styleRules |-> << [id |-> "r1", category |-> "tone", content |-> "formal",
                        scope |-> "global", temporalMarker |-> "current"] >>,
     extractionId |-> "e1"],
    [userId |-> DefaultUserId, sessionId |-> "s1", artifactId |-> "",
     entities |-> <<>>, triples |-> <<>>,
     styleRules |-> << [id |-> "r2", category |-> "tone", content |-> "casual",
                        scope |-> "global", temporalMarker |-> "current"] >>,
     extractionId |-> "e2"],
    [userId |-> "u9", sessionId |-> "", artifactId |-> "",
     entities |-> <<>>, triples |-> <<>>,
     styleRules |-> << [id |-> "r1", category |-> "tone", content |-> "formal",
                        scope |-> "session", temporalMarker |-> "past"] >>,
     extractionId |-> "e3"] }

NextUpsertStyleRule ==
  \/ InitGraphRAGSchemaRun
  \/ \E input \in ReusedIdInputs : WriteToGraphRun(input)

SpecUpsertStyleRule == InitWriteToGraph /\ [][NextUpsertStyleRule]_vars

\* Rule r is one that userId PREFERS, in one of the scopes of styleRules.
OwnedInScope(r, userId, styleRules) ==
  /\ \E e \in edges :
       e.type = "PREFERS" /\ e.from = Node("User", userId) /\ e.to = Node("StyleRule", r)
  /\ \E i \in DOMAIN styleRules : styleRules[i].scope = rules[r].scope

\* C29 (writeToGraph): an invocation for one user leaves the temporalMarker
\* of every rule of another user or of another scope as it is and adds no
\* CONTRADICTS edge to such a rule.
C29_UpsertWithinUserAndScope ==
  [][(last'.op = "writeToGraph" /\ writes' # writes) =>
       \A r \in DOMAIN rules :
         ~OwnedInScope(r, last'.input.userId, last'.input.styleRules) =>
           /\ rules'[r].temporalMarker = rules[r].temporalMarker
           /\ \A e \in edges' \ edges :
                ~(e.type = "CONTRADICTS" /\ e.to = Node("StyleRule", r))]_vars

\* ------------------------------------------------------------------------
\* detectSimpleContradiction on its own (SpecDetect): one call in a
\* behaviour, on two rule texts and the marker of the new rule.
\* ------------------------------------------------------------------------

\* Rule texts: with members of the pairs in either case and inside longer
\* words, with shared words that are content words, stop-words or short, and
\* with a word that carries punctuation.
DetectTexts ==
  { "Use FORMAL tone", "use casual tone", "be informal", "keep answers short",
    "prefer long form", "never mention pricing", "always mention pricing",
    "avoid pricing.", "never about this", "talk about this now", "stay inactive" }

DetectSimpleContradictionRun ==
  /\ last = NoInvocation
  /\ \E newRule \in DetectTexts, existingRule \in DetectTexts,
        newTemporalMarker \in TemporalMarkerValues :
       last' = [op |-> "detectSimpleContradiction", res |-> Res("boolean"),
                down |-> ~storeUp, failed |-> FALSE,
                newRule |-> newRule, existingRule |-> existingRule,
                newTemporalMarker |-> newTemporalMarker,
                isContradiction |->
                  detectSimpleContradiction(newRule, existingRule, newTemporalMarker)]
  /\ UNCHANGED <<client, GRAPHRAG_CONTRADICTION_STRATEGY, nodes, rules, edges, call, writes,
                 faults, detected>>

NextDetect == DetectSimpleContradictionRun

InitDetect ==
  /\ FreshProcess
  /\ faults = 0
  /\ GRAPHRAG_MODE = "OPTIONAL"
  /\ GRAPHRAG_CONTRADICTION_STRATEGY = ""

SpecDetect == InitDetect /\ [][NextDetect]_vars

\* The two texts share a content word: a word of more than three characters
\* that is not a stop-word.
ShareContentWord(text1, text2) ==
  \E w \in Words(toLowerCase(text1)) \cap Words(toLowerCase(text2)) :
    Len(w) > 3 /\ w \notin COMMON_WORDS

\* One text contains one member of a pair of the table and the other text
\* contains the other member.
ContainOpposingKeywords(text1, text2) ==
  \E k \in 1..Len(opposingPairs) : \E m \in {1, 2} :
    /\ includes(toLowerCase(text1), opposingPairs[k][m])
    /\ includes(toLowerCase(text2), opposingPairs[k][3 - m])

\* C30: detectSimpleContradiction flags a contradiction exactly when the
\* marker of the new rule is negated and the texts share a content word, or
\* the texts contain the two members of an opposing keyword pair; the
\* keyword test gives the same result when the texts are swapped.
C30_FlagsExactly ==
  last.op = "detectSimpleContradiction" =>
    /\ last.isContradiction <=>
         \/ last.newTemporalMarker = "negated"
            /\ ShareContentWord(last.newRule, last.existingRule)
         \/ ContainOpposingKeywords(last.newRule, last.existingRule)
    /\ detectSimpleContradiction(last.newRule, last.existingRule, "current")
         <=> detectSimpleContradiction(last.existingRule, last.newRule, "current")

\* A call flagged a pair of texts whose keywords stand in the order opposite
\* to the table, the new rule not negated.
C30_Witness ==
  /\ last.op = "detectSimpleContradiction"
  /\ last.isContradiction
  /\ last.newTemporalMarker = "current"
  /\ last.newRule = "use casual tone"
  /\ last.existingRule = "Use FORMAL tone"

\* ------------------------------------------------------------------------
\* extractFromMessages on its own (SpecExtract): one call in a behaviour,
\* on a conversation of one or two turns.
\* ------------------------------------------------------------------------

\* Turn contents: with and without a preference, with a negation cue, a
\* retrospective cue, both, and with capitalized and quoted names.
ExtractContents ==
  { "Sure, Mars it is", "use formal tone", "never use formal tone",
    "I prefer what we used previously", "never write as before",
    "keep it like " \o QuotationMark \o "dune" \o QuotationMark \o " please" }

ExtractRoles == {"user", "human", "assistant"}

MaxTurns == 2

ExtractConversations ==
  UNION { [1..n -> [role : ExtractRoles, content : ExtractContents]] : n \in 1..MaxTurns }

ExtractFromMessagesRun ==
  /\ last = NoInvocation
  /\ \E messages \in ExtractConversations :
       last' = [op |-> "extractFromMessages", res |-> Res("ExtractionResult"),
                down |-> ~storeUp, failed |-> FALSE, messages |-> messages,
                extraction |-> extractFromMessages(messages)]
  /\ UNCHANGED <<client, GRAPHRAG_CONTRADICTION_STRATEGY, nodes, rules, edges, call, writes,
                 faults, detected>>

NextExtract == ExtractFromMessagesRun

SpecExtract == InitDetect /\ [][NextExtract]_vars

Elements(seq) == { seq[i] : i \in DOMAIN seq }

\* The style rules come from the turns of role human or user only.
RulesFromUserTurnsOnly ==
  Elements(last.extraction.styleRules) \subseteq
    UNION { Elements(RulesOfContent(last.messages[k].content)) :
              k \in { j \in DOMAIN last.messages : last.messages[j].role \in {"human", "user"} } }

\* The names found in the turns of either role are among the entities.
EntitiesFromBothRoles ==
  \A k \in DOMAIN last.messages :
    Elements(EntitiesOfContent(last.messages[k].content))
      \subseteq Elements(last.extraction.entities)

\* C31: style rules come only from human/user turns, while entity
\* candidates come from the turns of both roles: a name that appears only in
\* an assistant turn is in the extracted entity set.
C31_RulesFromUserEntitiesFromBoth ==
  last.op = "extractFromMessages" => RulesFromUserTurnsOnly /\ EntitiesFromBothRoles

\* The part of C31 that holds: style rules come only from human/user turns.
C31_RulesFromUserTurns ==
  last.op = "extractFromMessages" => RulesFromUserTurnsOnly

\* The text contains one of the cues as a word or phrase, in any case.
ContainsCue(text, cues) ==
  \E cue \in cues : \E i \in 1..Len(text) :
    /\ At(toLowerCase(text), i, cue)
    /\ i = 1 \/ ~IsWordChar(Char(text, i - 1))
    /\ i + Len(cue) > Len(text) \/ ~IsWordChar(Char(text, i + Len(cue)))

\* C32: every style rule of the Extractor has temporalMarker negated if its
\* text contains a negation cue, else past if it contains a retrospective
\* cue, else current; negation takes precedence, and the marker is never
\* future.
C32_MarkerFromCues ==
  last.op = "extractFromMessages" =>
    \A r \in Elements(last.extraction.styleRules) :
      /\ r.temporalMarker =
           IF ContainsCue(r.rule, {"don't", "never", "avoid", "stop", "no longer",
                                   "not anymore"}) THEN "negated"
           ELSE IF ContainsCue(r.rule, {"used to", "previously", "before"}) THEN "past"
           ELSE "current"
      /\ r.temporalMarker # "future"

\* An extraction holds a rule with a negation cue and a retrospective cue,
\* marked negated, and a rule with a retrospective cue only, marked past.
C32_Witness ==
  /\ last.op = "extractFromMessages"
  /\ \E r \in Elements(last.extraction.styleRules) :
       r.rule = "never write as before" /\ r.temporalMarker = "negated"
  /\ \E r \in Elements(last.extraction.styleRules) :
       r.rule = "I prefer what we used previously" /\ r.temporalMarker = "past"

\* ------------------------------------------------------------------------
\* The sessions of runQuery and runWriteQuery (SpecSessions): the callers of
\* Writers call runQuery and runWriteQuery of either client module;
\* call[w].sessions counts the sessions that the calls of w have opened with
\* driver.session() and not closed with session.close(), and call[w].body
\* is what the try/catch of the call at hand has decided to return.
\* ------------------------------------------------------------------------

\* A call returns or raises kind.
Completed(w, op, kind, opened) ==
  last' = [op |-> op, res |-> Res(kind), down |-> ~storeUp, failed |-> kind = "raise",
           caller |-> w, opened |-> opened]

\* runQuery without its finally block: session.close() after a session.run
\* that succeeded only
AfterRunCloseOnSuccess(c, body) ==
  IF body = "rows" THEN [c EXCEPT !.pc = "close", !.body = body]
  ELSE [c EXCEPT !.pc = "idle", !.body = body]

\* try { return await session.run(...) } catch { raise or null } finally
\* { await session.close() }: whatever the body decides, the call goes on to
\* session.close().
AfterRun(c, body) == [c EXCEPT !.pc = "close", !.body = body]

\* runQuery or runWriteQuery is called: await getDriver(), if (!driver)
\* return null, the mode, driver.session(), and session.run is awaited.
RunQueryEnter(w) ==
  /\ call[w].pc = "idle"
  /\ \E op \in {"runQuery", "runWriteQuery"}, g \in {1, 2} :
       /\ g = 2 => op = "runQuery"
       /\ \E r \in {IF g = 1 THEN getDriver(ClientState(0, "run"))
                    ELSE getDriver2(ClientState(0, "run"))} :
            /\ _driver' = r.st.driver
            /\ _driverInitAttempted' = r.st.attempted
            /\ _driver2' = r.st.driver2
            /\ _config' = r.st.config
            /\ _schemaInitialized' = r.st.schemaInitialized
            /\ storeCalls' = r.st.calls
            /\ driversCreated' = r.st.drivers
            /\ IF r.ret # "driver"
               THEN Completed(w, op, r.ret, FALSE) /\ UNCHANGED <<call, faults>>
               ELSE \E f \in IF faults > 0 THEN {"ok", "open"} ELSE {"ok"} :
                      IF f = "open"
                      THEN /\ Completed(w, op, "raise", FALSE)
                           /\ faults' = faults - 1
                           /\ UNCHANGED call
                      ELSE /\ call' = [call EXCEPT ![w] =
                                 [@ EXCEPT !.pc = "run", !.op = op, !.gen = g,
                                           !.sessions = @ + 1,
                                           !.mode = IF g = 1 THEN getGraphRAGMode(GRAPHRAG_MODE)
                                                    ELSE IF r.st.config # "none" THEN r.st.config
                                                    ELSE getGraphRAGMode2(GRAPHRAG_MODE)]]
                           /\ UNCHANGED <<last, faults>>
  /\ UNCHANGED <<GRAPHRAG_MODE, storeUp, _initialized, GRAPHRAG_CONTRADICTION_STRATEGY,
                 nodes, rules, edges, writes, detected>>

\* session.run settles: the rows, or the catch block
SessionRunSettles(w) ==
  /\ call[w].pc = "run"
  /\ storeCalls' = Inc(storeCalls)
  /\ \E f \in IF faults > 0 THEN {"ok", "run"} ELSE {"ok"} :
     \E body \in {IF storeUp /\ f = "ok" THEN "rows"
                  ELSE IF call[w].mode = "REQUIRED" THEN "raise" ELSE "null"} :
     \E c \in {AfterRun(call[w], body)} :
       /\ faults' = IF f = "run" THEN faults - 1 ELSE faults
       /\ IF c.pc = "idle"
          THEN /\ call' = [call EXCEPT ![w] = Returned(c)]
               /\ Completed(w, c.op, body, TRUE)
          ELSE /\ call' = [call EXCEPT ![w] = c]
               /\ UNCHANGED last
  /\ UNCHANGED <<GRAPHRAG_MODE, storeUp, _driver, _driverInitAttempted, _initialized,
                 _driver2, _config, _schemaInitialized, driversCreated,
                 GRAPHRAG_CONTRADICTION_STRATEGY, nodes, rules, edges, writes, detected>>

\* session.close() settles, and the call returns what its body decided, or
\* raises what session.close() raised.
SessionCloseSettles(w) ==
  /\ call[w].pc = "close"
  /\ \E f \in IF faults > 0 THEN {"ok", "close"} ELSE {"ok"} :
       /\ faults' = IF f = "close" THEN faults - 1 ELSE faults
       /\ call' = [call EXCEPT ![w] = Returned([@ EXCEPT !.sessions = @ - 1])]
       /\ Completed(w, call[w].op, IF f = "close" THEN "raise" ELSE call[w].body, TRUE)
  /\ UNCHANGED <<client, GRAPHRAG_CONTRADICTION_STRATEGY, nodes, rules, edges, writes,
                 detected>>

InitSessions ==
  /\ FreshProcess
  /\ faults = MaxFaults
  /\ GRAPHRAG_CONTRADICTION_STRATEGY = ""

NextSessions ==
  \/ \E w \in Writers : RunQueryEnter(w) \/ SessionRunSettles(w) \/ SessionCloseSettles(w)
  \/ Outage

SpecSessions == InitSessions /\ [][NextSessions]_vars

\* The sessions that are open
OpenSessions(w) == call[w].sessions

Superseded ==
  { d \in detected :
      /\ resolutionStep(d.strict, d.strategy) = "deactivateOld"
      /\ HasRule(Graph, d.old)
      /\ ~rules[d.old].active }

\* The rule new is in the graph, active or superseded in its turn.
InForce(new) ==
  /\ HasRule(Graph, new)
  /\ rules[new].active \/ \E d \in Superseded : d.old = new

\* C34: in every reachable state of the graph, the states between the calls
\* of a write invocation and the states left by a failed call included, a
\* rule deactivated by most-recent-wins resolution has its superseding rule
\* in the graph with active=true.
C34_SupersedingRuleActive == \A d \in Superseded : InForce(d.new)

\* C34 for the states in which no write invocation is under way
C34_SupersedingRuleActiveAtRest == AllIdle => \A d \in Superseded : InForce(d.new)

\* ------------------------------------------------------------------------
\* getDriver called while another call is initializing (SpecGetDriver): the
\* store stays reachable, and last records what a call that returns without
\* an await was handed.
\* ------------------------------------------------------------------------

\* A call of caller v is initializing the connection of module g.
Initializing(v, g) == call[v].gen = g /\ call[v].pc \in {"import", "verify", "schema"}

\* The driver of module g is there and no verifyConnectivity on it is
\* pending.
Verified(g) ==
  /\ IF g = 1 THEN _driver ELSE _driver2
  /\ \A v \in Writers : ~(call[v].gen = g /\ call[v].pc = "verify")

\* getDriver is called by w: it returns at once what the module holds, or
\* goes on to the import.
GetDriverCalled(w) ==
  /\ call[w].pc = "idle"
  /\ \E g \in {1, 2} :
       /\ IF g = 1 THEN EnterGetDriver(w, "getDriver") ELSE EnterGetDriver2(w, "getDriver")
       /\ last' = IF call'[w].pc = "idle"
                  THEN [op |-> "getDriver",
                        res |-> Res(IF (IF g = 1 THEN _driver ELSE _driver2)
                                    THEN "driver" ELSE "null"),
                        down |-> ~storeUp, failed |-> FALSE, caller |-> w, gen |-> g,
                        verified |-> Verified(g),
                        during |-> \E v \in Writers \ {w} : Initializing(v, g)]
                  ELSE last
  /\ UNCHANGED <<GRAPHRAG_MODE, storeUp, _driver, _driver2, _config,
                 _schemaInitialized, storeCalls, driversCreated,
                 GRAPHRAG_CONTRADICTION_STRATEGY, nodes, rules, edges, writes, faults,
                 detected>>

NextGetDriver ==
  \E w \in Writers :
    \/ GetDriverCalled(w)
    \/ GetDriverCreate(w)
    \/ GetDriverVerified(w)
    \/ EnsureGraphSchemaStatement(w)

SpecGetDriver == InitDrivers /\ [][NextGetDriver]_vars

\* C35: a getDriver call made while another call is initializing the
\* connection to a reachable store receives the driver, after its
\* connectivity has been verified: never null, never an unverified driver.
C35_SecondCallerGetsVerifiedDriver ==
  (last.op = "getDriver" /\ last.during) => (last.res.kind = "driver" /\ last.verified)

\* The same for module g only
C35_InModule(g) ==
  (last.op = "getDriver" /\ last.during /\ last.gen = g)
    => (last.res.kind = "driver" /\ last.verified)

C35_SecondCallerFirstModule == C35_InModule(1)

C35_SecondCallerSecondModule == C35_InModule(2)

\* ------------------------------------------------------------------------
\* graphdb.ts after a failed connection attempt (SpecClient)
\* ------------------------------------------------------------------------

\* The connection attempt of graphdb.ts has failed, in OPTIONAL mode.
FailedOptional == Mode = "OPTIONAL" /\ _driverInitAttempted /\ ~_driver

\* The step is, or leaves in last, a call of graphdb.ts that returned null
\* without a store call and without creating a driver.
ReturnsNullOffline ==
  last'.op \in ClientOps =>
    /\ last'.res.kind = "null"
    /\ storeCalls' = storeCalls
    /\ driversCreated' = driversCreated

C37_EdgeMarkerEqualsNodeMarker ==
  \A e \in edges :
    (e.type = "PREFERS" /\ HasRule(Graph, e.to[2])) =>
      PrefersTemporalMarker(e) = rules[e.to[2]].temporalMarker

\* C37 for the rules that no resolution has deactivated
C37_EdgeMarkerOfActiveRules ==
  \A e \in edges :
    (e.type = "PREFERS" /\ HasRule(Graph, e.to[2]) /\ rules[e.to[2]].active) =>
      PrefersTemporalMarker(e) = rules[e.to[2]].temporalMarker

\* ------------------------------------------------------------------------
\* Several rules in one invocation (SpecWriteBatch)
\* ------------------------------------------------------------------------

BatchWriteStep(w) ==
  \/ StartExtractAndWrite(w, BatchConversations)
  \/ WriteExtractionToGraphStart(w)
  \/ WriteCalls(w)

NextWriteBatch == \E w \in SequentialWriters : BatchWriteStep(w)

SpecWriteBatch == InitWrite /\ [][NextWriteBatch]_vars

\* The rules in the graph that invocation n inserted: it draws their ids
InsertedBy(n) ==
  { r \in DOMAIN rules : \E k \in 1..Cardinality(DOMAIN rules) : r = UUID(n, k) }

\* C38: contradiction resolution never deactivates a style rule that the
\* same invocation inserted: the rules extracted from one batch of turns are
\* all active when the invocation ends unless a later invocation supersedes
\* them.
C38_BatchRulesStayActive ==
  \A r \in DOMAIN rules :
    ~rules[r].active => \A d \in Superseded : d.old = r => r \notin InsertedBy(d.n)

\* C39: in a mode other than OFF initGraphRAGSchema returns true only if
\* every schema statement was executed successfully; when a statement failed
\* in OPTIONAL mode it returns false.
C39_TrueOnlyIfAllStatementsSucceeded ==
  (last.op = "initGraphRAGSchema" /\ Mode # "OFF" /\ last.res.kind = "true") => ~last.failed

\* C40: the read path never returns a context whose entities, relations,
\* styleRules and citations are all empty; with nothing to inject, also when
\* the extracted names match no Concept and the user has no applicable rule,
\* it returns null.
C40_NoEmptyContext ==
  ReadReturnedContext =>
    ~(/\ last.context.entities = <<>>
      /\ last.context.relations = <<>>
      /\ last.context.styleRules = <<>>
      /\ last.context.citations = {})

\* C40 for the reads whose prompt and artifact yield no entity name.
C40_NoEmptyContextWithoutNames ==
  (ReadReturnedContext /\ last.entityNames = <<>>) => last.context.styleRules # <<>>

====
